---- MODULE Spec2Model ----
(***************************************************************************)
(* Verification model of the EmbedNexus ingestion durability core:        *)
(*   crates/storage-ledger      OfflineReplayBuffer                        *)
(*   crates/ingestion-manifest  ManifestEmitter                            *)
(*   crates/storage-vector      VectorStore, envelope, key manager         *)
(*                                                                         *)
(* Time is the wall clock in whole milliseconds (SystemTime / Duration).  *)
(* A ReplayEntry is modelled by sequence, repo_id, delayed_ms and status.  *)
(* The two payload checksums are copied from the diff like repo_id and     *)
(* never read again.  A buffer call reads the clock once; a flush may see  *)
(* the clock advance while its sends are in flight.                        *)
(*                                                                         *)
(* Strings and payloads of the vector store are sequences of bytes.  The   *)
(* AEAD primitive and SHA-256 are external; they are modelled by a keyed   *)
(* stream and a digest that is injective on the values that occur.         *)
(***************************************************************************)
EXTENDS Integers, Sequences, FiniteSets, TLC

\* ------------------------------------------------------------------ bounds
MaxTime == 2        \* the clock stops advancing here
MaxEntries == 2     \* buffer max_entries is drawn from 0..MaxEntries
MaxSeq == 3         \* sequence numbers are drawn from 1..MaxSeq
\* buffer max_age is drawn from 0..MaxAge: every age up to MaxAge + 1 occurs
MaxAge == MaxTime - 1
\* entries a ledger preloads into the buffer before the emitter is built
MaxPreload == MaxEntries
\* pushes a client makes on a buffer it uses on its own
MaxPushes == MaxEntries + 1
MaxUpserts == 2     \* upsert calls made on one vector store
MaxAttempts == 2    \* pushes of one retry entry (enqueue and requeues)

VARIABLES
    now,                \* SystemTime::now()
    max_entries,        \* OfflineReplayBuffer.max_entries
    max_age,            \* OfflineReplayBuffer.max_age
    inner,              \* OfflineReplayBuffer.inner (VecDeque<ReplayEnvelope>)
    max_sequence_seen,  \* OfflineReplayBuffer.max_sequence_seen (Option<u64>)
    held,               \* Vec<ReadyReplayEntry> a caller got from drain_ready
    pc,                 \* "buffer": a buffer used on its own; "setup": a buffer
                        \* being preloaded; "running": the emitter is built
    config,             \* ManifestEmitter.config
    next_sequence,      \* ManifestEmitter.next_sequence
    queue,              \* entries the ManifestQueue accepted, in order
    emits,              \* history: the number of emit calls made
    flushed_ok_max,     \* history: the highest sequence sent by a flush_offline
                        \* that returned Ok (0: none)
    pushes,             \* number of pushes made by the client or the preload
    pushed_max,         \* history: the largest sequence a push or requeue that
                        \* returned Ok has put into the buffer (0: none)
    last                \* history: the call that produced this state

VARIABLES
    encrypter,          \* VectorStore.encrypter is Some
    kms,                \* VectorStore.kms is Some
    fs_root,            \* VectorStore.fs_root is Some
    store_inner,        \* VectorStore.inner: (repo_id, key) -> Option<Blob>
    files,              \* the files under fs_root: path -> Option<bytes>
    store_next_sequence,\* VectorStore.next_sequence
    current_id,         \* InMemoryKeyManager.current_id
    keys,               \* InMemoryKeyManager.keys: key id -> Option<[u8; 32]>
    upserts,            \* number of upsert calls made
    written,            \* history: (repo_id, key) -> the payload and the key
                        \* handle of its latest successful upsert
    damage,             \* history: what an outside writer did to the stored
                        \* bytes
    res                 \* history: the store call that produced this state

storeVars == << encrypter, kms, fs_root, store_inner, files, store_next_sequence,
                current_id, keys, upserts, written, damage, res >>

bufferVars == << now, max_entries, max_age, inner, max_sequence_seen, held,
                 config, next_sequence, queue, emits, flushed_ok_max, pushes,
                 pushed_max, last >>

VARIABLES
    wall,               \* SystemTime::now() as the adapters read it, in ms
    allowed_principals, \* config.allowed_principals of the adapter
    require_csrf,       \* HttpConfig.require_csrf
    allowed_uids,       \* UdsConfig.allowed_uids
    negotiated_uids,    \* UdsAdapter.negotiated_uids
    max_frame_length,   \* StdioConfig.max_frame_length
    calls,              \* RecordingRouter.calls
    issued,             \* history: the tokens the adapter's signer has issued
    frame,              \* the StdioFrame a client holds, with the payload and
                        \* token it was encoded from
    tres                \* history: the adapter call that produced this state

VARIABLES
    planner_config,     \* ChunkPlanner.config
    ws_files,           \* WorkspaceDescriptor.files
    plans,              \* the result of the last ChunkPlanner::plan call
    first_plans,        \* history: the result of the first plan call
    enumerator_config,  \* WorkspaceEnumerator.config
    ignore_rules,       \* WorkspaceRecord.ignore_rules of the scanned record
    ignore_stack        \* WorkspaceDescriptor.ignore_stack scan returned

\* threads that call into one shared VectorStore or one shared buffer handle
VARIABLES
    workers,            \* each thread's position in its call and its locals
    returned            \* history: the calls that have returned, in order

transportVars == << wall, allowed_principals, require_csrf, allowed_uids,
                    negotiated_uids, max_frame_length, calls, issued, frame, tres >>

plannerVars == << planner_config, ws_files, plans, first_plans,
                 enumerator_config, ignore_rules, ignore_stack >>

workerVars == << workers, returned >>

serviceVars == << transportVars, plannerVars, workerVars >>

vars == << now, max_entries, max_age, inner, max_sequence_seen, held, pc,
           config, next_sequence, queue, emits, flushed_ok_max, pushes,
           pushed_max, last, encrypter, kms, fs_root, store_inner, files,
           store_next_sequence, current_id, keys, upserts, written, damage, res,
           wall, allowed_principals, require_csrf, allowed_uids, negotiated_uids,
           max_frame_length, calls, issued, frame, tres, planner_config,
           ws_files, plans, first_plans, enumerator_config, ignore_rules,
           ignore_stack, workers, returned >>

\* no adapter call made yet
NoTres == [op |-> "none", kind |-> "none", status |-> 0, message |-> "",
           request |-> << >>, value |-> << >>]

\* no transport adapter in use
TransportIdle ==
    /\ wall = 0
    /\ allowed_principals = << >>
    /\ require_csrf = FALSE
    /\ allowed_uids = { }
    /\ negotiated_uids = { }
    /\ max_frame_length = 0
    /\ calls = << >>
    /\ issued = { }
    /\ frame = << >>
    /\ tres = NoTres

\* no workspace enumerator in use
EnumeratorIdle ==
    /\ enumerator_config = [global_ignores |-> << >>, sandbox_ignores |-> << >>]
    /\ ignore_rules = << >>
    /\ ignore_stack = << >>

\* no planner in use
PlannerIdle ==
    /\ planner_config = [target_chunk_bytes |-> 0, max_chunks_per_batch |-> 0]
    /\ ws_files = << >>
    /\ plans = << >>
    /\ first_plans = << >>
    /\ EnumeratorIdle

\* the threads of the model: two callers sharing one handle
Threads == { 1, 2 }

\* a thread that is in no call
Idle == [op |-> "idle"]

\* no thread has called yet
WorkersIdle ==
    /\ workers = [t \in Threads |-> Idle]
    /\ returned = << >>

ServiceIdle == TransportIdle /\ PlannerIdle /\ WorkersIdle

\* ------------------------------------------------------------ Option<u64>
None == << >>
Some(x) == << x >>

Max(a, b) == IF a >= b THEN a ELSE b

\* ------------------------------------------------- storage-ledger/src/lib.rs

\* SystemTime::duration_since: Ok(later - earlier), Err when earlier > later
duration_since(later, earlier) ==
    IF later >= earlier THEN [ok |-> TRUE, age |-> later - earlier]
    ELSE [ok |-> FALSE, age |-> 0]

\* ReplayEnvelope { entry, inserted_at }.  born is history: the time of the
\* push that first put the entry into the buffer.
ReplayEnvelope(entry, inserted_at, born) ==
    [entry |-> entry, inserted_at |-> inserted_at, born |-> born]

\* ReadyReplayEntry { entry, inserted_at }
ReadyReplayEntry(env) ==
    [entry |-> env.entry, inserted_at |-> env.inserted_at, born |-> env.born]

\* variant of purge_locked that purges nothing
purge_locked_none(guard, t, maxage) == guard

\* purge_locked: guard.retain(|e| age <= max_age, or inserted_at in the future)
RECURSIVE purge_locked(_, _, _)
purge_locked(guard, t, maxage) ==
    IF guard = << >> THEN << >>
    ELSE LET envelope == Head(guard)
             d == duration_since(t, envelope.inserted_at)
             keep == IF d.ok THEN d.age <= maxage ELSE TRUE
             rest == purge_locked(Tail(guard), t, maxage)
         IN IF keep THEN << envelope >> \o rest ELSE rest

\* variant of the capacity loop that drops nothing
evict_front_none(guard, cap) == guard

\* while guard.len() > self.max_entries { guard.pop_front(); }
RECURSIVE evict_front(_, _)
evict_front(guard, cap) ==
    IF Len(guard) > cap THEN evict_front(Tail(guard), cap) ELSE guard

\* variant that records the sequence of the latest push
bump_max_seen_latest(max_seen, sequence) == Some(sequence)

\* the max_sequence_seen update of push_envelope
bump_max_seen(max_seen, sequence) ==
    IF max_seen # None /\ max_seen[1] >= sequence THEN max_seen
    ELSE Some(sequence)

\* push_envelope on a buffer value b = [inner, max_seen]; t is the clock.
push_envelope(b, env, t, cap, maxage) ==
    IF cap = 0
    THEN [ok |-> FALSE, inner |-> b.inner, max_seen |-> b.max_seen]
    ELSE [ok |-> TRUE,
          inner |-> evict_front(purge_locked(Append(b.inner, env), t, maxage), cap),
          max_seen |-> bump_max_seen(b.max_seen, env.entry.sequence)]

\* the number of guard.pop_front() calls push_envelope makes
capacity_evicted(b, env, t, cap, maxage) ==
    IF cap = 0 THEN 0
    ELSE LET kept == purge_locked(Append(b.inner, env), t, maxage)
         IN Len(kept) - Len(evict_front(kept, cap))

\* push: inserted_at = now
push(b, entry, t, cap, maxage) ==
    push_envelope(b, ReplayEnvelope(entry, t, t), t, cap, maxage)

\* variant of requeue that stamps the envelope with the current time
requeue_restamped(b, ready, t, cap, maxage) ==
    push_envelope(b, ReplayEnvelope(ready.entry, t, ready.born), t, cap, maxage)

\* requeue: inserted_at = ready.inserted_at
requeue(b, ready, t, cap, maxage) ==
    push_envelope(b, ReplayEnvelope(ready.entry, ready.inserted_at, ready.born),
                  t, cap, maxage)

\* drain_ready: purge, then drain(..) mapped to ReadyReplayEntry
RECURSIVE map_ready(_)
map_ready(guard) ==
    IF guard = << >> THEN << >>
    ELSE << ReadyReplayEntry(Head(guard)) >> \o map_ready(Tail(guard))

drain_ready(guard, t, maxage) ==
    [ready |-> map_ready(purge_locked(guard, t, maxage)), inner |-> << >>]

\* max_sequence
max_sequence == max_sequence_seen

\* -------------------------------------------- ingestion-manifest/src/lib.rs

\* Duration::as_millis() as u64: durations are whole milliseconds and stay
\* far below 2^64, so the cast keeps the value
as_millis_u64(d) == d

\* ManifestEmitter::new: the initial next_sequence
new_next_sequence(max_seq, sequence_start) ==
    IF max_seq # None THEN max_seq[1] + 1 ELSE sequence_start

\* build_entry
build_entry(cfg, diff, sequence) ==
    [sequence |-> sequence,
     repo_id |-> diff.repo_id,
     delayed_ms |-> as_millis_u64(cfg.retention_max_age),
     status |-> "pending"]

WithStatus(entry, s) == [entry EXCEPT !.status = s]

\* emit, queue offline: entry.status = "buffered"
\* variant that leaves the status as build_entry set it
buffered_entry_pending(entry) == entry
buffered_entry(entry) == WithStatus(entry, "buffered")

\* emit: self.next_sequence = sequence + 1
\* variant that does not advance
emit_next_sequence_stuck(sequence) == sequence
emit_next_sequence(sequence) == sequence + 1

\* flush_offline: self.next_sequence = self.next_sequence.max(sequence + 1)
flush_next_sequence(next, sequence) == Max(next, sequence + 1)

\* The loop of flush_offline, on em = [inner, max_seen, queue, next, ret].
\* accepts is the number of sends the queue accepts before it fails one;
\* t is the clock when the requeues run.
\* variant that requeues the failing envelope only
requeue_all_first_only(b, drained, t, cap, maxage) ==
    IF drained = << >> THEN [ok |-> TRUE, inner |-> b.inner, max_seen |-> b.max_seen]
    ELSE requeue(b, [Head(drained) EXCEPT !.entry.status = "buffered"], t, cap, maxage)

\* flush_offline, the send failed: requeue the failing envelope and every
\* envelope still in drained, each with status "buffered"
RECURSIVE requeue_all(_, _, _, _, _)
requeue_all(b, drained, t, cap, maxage) ==
    IF drained = << >> THEN [ok |-> TRUE, inner |-> b.inner, max_seen |-> b.max_seen]
    ELSE LET remaining == Head(drained)
             r == requeue(b, [remaining EXCEPT !.entry.status = "buffered"],
                          t, cap, maxage)
         IN IF ~r.ok THEN r
            ELSE requeue_all([inner |-> r.inner, max_seen |-> r.max_seen],
                             Tail(drained), t, cap, maxage)

\* variant of the loop that puts an entry back into the buffer although the
\* queue accepted it
RECURSIVE flush_loop_keep_sent(_, _, _, _, _, _)
flush_loop_keep_sent(em, drained, accepts, t, cap, maxage) ==
    IF drained = << >> THEN [em EXCEPT !.ret = "Ok"]
    ELSE IF accepts > 0
    THEN LET r == requeue([inner |-> em.inner, max_seen |-> em.max_seen],
                          Head(drained), t, cap, maxage)
         IN flush_loop_keep_sent(
                [em EXCEPT !.queue = Append(@, WithStatus(Head(drained).entry, "emitted")),
                           !.next = flush_next_sequence(@, Head(drained).entry.sequence),
                           !.inner = r.inner, !.max_seen = r.max_seen],
                Tail(drained), accepts - 1, t, cap, maxage)
    ELSE LET r == requeue_all([inner |-> em.inner, max_seen |-> em.max_seen],
                              drained, t, cap, maxage)
         IN [em EXCEPT !.inner = r.inner, !.max_seen = r.max_seen,
                       !.ret = IF r.ok THEN "QueueOffline" ELSE "Buffer"]

\* variant of the loop that sends the first drained entry and returns
flush_loop_first_only(em, drained, accepts, t, cap, maxage) ==
    IF drained = << >> \/ accepts = 0 THEN [em EXCEPT !.ret = "Ok"]
    ELSE [em EXCEPT !.queue = Append(@, WithStatus(Head(drained).entry, "emitted")),
                    !.next = flush_next_sequence(@, Head(drained).entry.sequence),
                    !.ret = "Ok"]

RECURSIVE flush_loop(_, _, _, _, _, _)
flush_loop(em, drained, accepts, t, cap, maxage) ==
    IF drained = << >> THEN [em EXCEPT !.ret = "Ok"]
    ELSE LET ready == Head(drained)
             sequence == ready.entry.sequence
             sent == WithStatus(ready.entry, "emitted")
         IN IF accepts > 0
            THEN flush_loop([em EXCEPT !.queue = Append(@, sent),
                                       !.next = flush_next_sequence(@, sequence)],
                            Tail(drained), accepts - 1, t, cap, maxage)
            ELSE LET r == requeue_all([inner |-> em.inner, max_seen |-> em.max_seen],
                                      drained, t, cap, maxage)
                 IN [em EXCEPT !.inner = r.inner, !.max_seen = r.max_seen,
                               !.ret = IF r.ok THEN "QueueOffline" ELSE "Buffer"]

\* ---------------------------------------------------- bytes and digests

\* F applied to the value of v, which is computed once
Eval(v, F(_)) == CHOOSE y \in { F(x) : x \in {v} } : TRUE

\* u16::to_be_bytes of a length cast `as u16`
to_be_bytes(n) == << ((n % 65536) \div 256), n % 256 >>

\* u16::from_be_bytes
from_be_bytes(hi, lo) == hi * 256 + lo

\* a running digest of a byte string
RECURSIVE MixSum(_, _, _)
MixSum(bytes, lo, hi) ==
    IF lo > hi THEN 0
    ELSE IF lo = hi THEN (bytes[lo] + 1) * (1 + ((lo * 7919) % 1009))
    ELSE LET mid == (lo + hi) \div 2
         IN (MixSum(bytes, lo, mid) + MixSum(bytes, mid + 1, hi)) % 1000003

Mix(h, bytes) ==
    Eval(bytes, LAMBDA b : (h * 257 + MixSum(b, 1, Len(b)) + Len(b)) % 1000003)

\* the digest h written as n bytes
Digits(h, n) ==
    Eval(h, LAMBDA x : << x % 256, (x \div 256) % 256, (x \div 65536) % 256 >>
                          \o [i \in 1..(n - 3) |-> 0])

\* Sha256: 32 bytes
Sha256(bytes) == Digits(Mix(3, bytes), 32)

\* std::str::from_utf8(bytes).is_ok()
RECURSIVE from_utf8_ok(_)
from_utf8_ok(b) ==
    IF b = << >> THEN TRUE
    ELSE LET c == b[1]
             cont(x) == x \in 128..191
         IN IF c < 128 THEN from_utf8_ok(Tail(b))
            ELSE IF c \in 194..223
            THEN /\ Len(b) >= 2
                 /\ cont(b[2])
                 /\ from_utf8_ok(SubSeq(b, 3, Len(b)))
            ELSE IF c \in 224..239
            THEN /\ Len(b) >= 3
                 /\ b[2] \in (IF c = 224 THEN 160 ELSE 128)..(IF c = 237 THEN 159 ELSE 191)
                 /\ cont(b[3])
                 /\ from_utf8_ok(SubSeq(b, 4, Len(b)))
            ELSE IF c \in 240..244
            THEN /\ Len(b) >= 4
                 /\ b[2] \in (IF c = 240 THEN 144 ELSE 128)..(IF c = 244 THEN 143 ELSE 191)
                 /\ cont(b[3])
                 /\ cont(b[4])
                 /\ from_utf8_ok(SubSeq(b, 5, Len(b)))
            ELSE FALSE

\* ------------------------------------- storage-vector/src/encryption/mod.rs

\* b"EVG1"
ENVELOPE_MAGIC == << 69, 86, 71, 49 >>
NONCE_LEN == 12
TAG_LEN == 16

\* KeyHandle { key_id, key_bytes }
KeyHandle(key_id, key_bytes) == [key_id |-> key_id, key_bytes |-> key_bytes]

encode_envelope(key_id, nonce, tag, ct) ==
    ENVELOPE_MAGIC \o to_be_bytes(Len(key_id)) \o key_id \o nonce \o tag \o ct

\* decode_envelope: Ok((key_id, nonce, tag, ct)) or Err
decode_envelope(bytes) ==
    LET err == [ok |-> FALSE, key_id |-> << >>, nonce |-> << >>, tag |-> << >>,
                ct |-> << >>]
    IN IF Len(bytes) < 4 + 2 + NONCE_LEN + TAG_LEN THEN err
       ELSE IF SubSeq(bytes, 1, 4) # ENVELOPE_MAGIC THEN err
       ELSE LET key_len == from_be_bytes(bytes[5], bytes[6])
                min == 4 + 2 + key_len + NONCE_LEN + TAG_LEN
                key_end == 6 + key_len
            IN IF Len(bytes) < min THEN err
               ELSE IF ~from_utf8_ok(SubSeq(bytes, 7, key_end)) THEN err
               ELSE [ok |-> TRUE,
                     key_id |-> SubSeq(bytes, 7, key_end),
                     nonce |-> SubSeq(bytes, key_end + 1, key_end + NONCE_LEN),
                     tag |-> SubSeq(bytes, key_end + NONCE_LEN + 1,
                                    key_end + NONCE_LEN + TAG_LEN),
                     ct |-> SubSeq(bytes, key_end + NONCE_LEN + TAG_LEN + 1, Len(bytes))]

\* peek_key_id: Some(key_id) or None
peek_key_id(bytes) ==
    IF Len(bytes) < 6 THEN None
    ELSE IF SubSeq(bytes, 1, 4) # ENVELOPE_MAGIC THEN None
    ELSE LET key_len == from_be_bytes(bytes[5], bytes[6])
         IN IF Len(bytes) < 6 + key_len THEN None
            ELSE IF from_utf8_ok(SubSeq(bytes, 7, 6 + key_len))
                 THEN Some(SubSeq(bytes, 7, 6 + key_len))
                 ELSE None

\* --------------------------------- storage-vector/src/encryption/aes_gcm.rs

\* derive_key: Sha256 of the key id
derive_key(key_id) == Sha256(key_id)

\* Aes256Gcm: buf combined with the keystream of (key, nonce); sign is 1 to
\* encrypt and -1 to decrypt
apply_keystream(key_bytes, nonce, buf, sign) ==
    Eval(Mix(Mix(7, key_bytes), nonce),
         LAMBDA base : [i \in 1..Len(buf) |->
                           (buf[i] + 256 + sign * (Mix(base, << i >>) % 256)) % 256]
                       \o << >>)

\* Aes256Gcm: the tag over (aad, ciphertext)
auth_tag(key_bytes, nonce, aad, ct) ==
    Digits(Mix(Mix(Mix(Mix(11, key_bytes), nonce), to_be_bytes(Len(aad)) \o aad), ct),
           TAG_LEN)

\* Aes256Gcm::encrypt_in_place_detached
encrypt_in_place_detached(key_bytes, nonce, aad, buf) ==
    Eval(apply_keystream(key_bytes, nonce, buf, 1),
         LAMBDA ct : [buf |-> ct, tag |-> auth_tag(key_bytes, nonce, aad, ct)])

\* Aes256Gcm::decrypt_in_place_detached
decrypt_in_place_detached(key_bytes, nonce, aad, buf, tag) ==
    IF tag # auth_tag(key_bytes, nonce, aad, buf) THEN [ok |-> FALSE, buf |-> << >>]
    ELSE [ok |-> TRUE, buf |-> apply_keystream(key_bytes, nonce, buf, -1)]

\* the key material AesGcmEncrypter uses for a handle
seal_key(key) == derive_key(key.key_id)

\* AesGcmEncrypter::seal; nonce is what OsRng.fill_bytes produced
seal(key, plaintext, aad, nonce) ==
    Eval(encrypt_in_place_detached(seal_key(key), nonce, aad, plaintext),
         LAMBDA r : encode_envelope(key.key_id, nonce, r.tag, r.buf))

\* AesGcmEncrypter::open: Ok(plaintext) or Err
open(key, envelope_bytes, aad) ==
    Eval(decode_envelope(envelope_bytes),
         LAMBDA d : IF ~d.ok THEN [ok |-> FALSE, buf |-> << >>]
                    ELSE IF d.key_id # key.key_id THEN [ok |-> FALSE, buf |-> << >>]
                    ELSE decrypt_in_place_detached(seal_key(key), d.nonce, aad,
                                                   d.ct, d.tag))

\* ------------------------------------------ storage-vector/src/kms/mod.rs

\* KeyManager::current for InMemoryKeyManager
kms_current(id, keymap) ==
    IF id \in DOMAIN keymap /\ keymap[id] # None
    THEN [ok |-> TRUE, handle |-> KeyHandle(id, keymap[id][1])]
    ELSE [ok |-> FALSE, handle |-> KeyHandle(id, << >>)]

\* KeyManager::get for InMemoryKeyManager
kms_get(keymap, key_id) ==
    IF key_id \in DOMAIN keymap /\ keymap[key_id] # None
    THEN [ok |-> TRUE, handle |-> KeyHandle(key_id, keymap[key_id][1])]
    ELSE [ok |-> FALSE, handle |-> KeyHandle(key_id, << >>)]

\* ------------------------------------------ storage-vector/src/store/fs.rs

\* encode_component: percent-encoding of every byte outside [0-9a-zA-Z._-]
RECURSIVE encode_component(_)
encode_component(s) ==
    IF s = << >> THEN << >>
    ELSE LET b == Head(s)
             hex(n) == IF n < 10 THEN 48 + n ELSE 55 + n
             safe == b \in (48..57) \cup (97..122) \cup (65..90) \cup {45, 95, 46}
         IN (IF safe THEN << b >> ELSE << 37, hex(b \div 16), hex(b % 16) >>)
            \o encode_component(Tail(s))

\* make_path: root/enc(repo_id)/enc(key), as the pair of components
make_path(repo_id, key) == << encode_component(repo_id), encode_component(key) >>

\* the index of the last '.' of a file name, 0 when it has none
LastDot(name) ==
    IF \E i \in 1..Len(name) : name[i] = 46
    THEN CHOOSE i \in 1..Len(name) :
            /\ name[i] = 46
            /\ \A j \in (i + 1)..Len(name) : name[j] # 46
    ELSE 0

\* Path::with_extension("tmp") on a path whose file name is not ".."
with_extension_tmp(path) ==
    LET name == path[2]
        dot == LastDot(name)
        stem == IF dot <= 1 THEN name ELSE SubSeq(name, 1, dot - 1)
    IN << path[1], stem \o << 46, 116, 109, 112 >> >>

\* atomic_write_bytes on the files fs: create and write the tmp file, then
\* rename it over the path
atomic_write_bytes(fs, repo_id, key, bytes) ==
    LET path == make_path(repo_id, key)
        tmp == with_extension_tmp(path)
        created == [fs EXCEPT ![tmp] = Some(bytes)]
    IN IF tmp = path THEN created
       ELSE [created EXCEPT ![path] = Some(bytes), ![tmp] = None]

\* where atomic_write_bytes returns: Ok at the end ("ok"), or an Err from
\* create_dir_all or File::create ("create"), from write_all ("write"), or
\* from sync_all or rename ("rename")
IoOutcomes == { "ok", "create", "write", "rename" }

\* atomic_write_bytes returning Err: File::create has truncated the tmp
\* file once it succeeded, and write_all has filled it once it succeeded
atomic_write_bytes_err(fs, repo_id, key, bytes, io) ==
    LET tmp == with_extension_tmp(make_path(repo_id, key))
    IN IF io = "create" THEN fs
       ELSE IF io = "write" THEN [fs EXCEPT ![tmp] = Some(<< >>)]
       ELSE [fs EXCEPT ![tmp] = Some(bytes)]

\* read_bytes: Ok(Some(bytes)), or NotFound (None)
read_bytes(fs, repo_id, key) == fs[make_path(repo_id, key)]

\* ---------------------------------------- storage-vector/src/store/mod.rs

\* variant of build_aad that binds the key id only
build_aad_key_id_only(repo_id, key_id, record_key) ==
    to_be_bytes(Len(key_id)) \o key_id

build_aad(repo_id, key_id, record_key) ==
    to_be_bytes(Len(repo_id)) \o repo_id
        \o to_be_bytes(Len(key_id)) \o key_id
        \o to_be_bytes(Len(record_key)) \o record_key

\* ledger.rs build_replay_entry
build_replay_entry(sequence, repo_id, status) ==
    [sequence |-> sequence, repo_id |-> repo_id, delayed_ms |-> 0, status |-> status]

\* ------------------------------------------------------------------ state

\* evicted: for a push or requeue, the envelopes its capacity loop dropped
NoCall == [op |-> "none", ret |-> "none", accepts |-> 0, evicted |-> 0]
Call(op, ret, accepts) == [op |-> op, ret |-> ret, accepts |-> accepts, evicted |-> 0]

Buf == [inner |-> inner, max_seen |-> max_sequence_seen]

\* a ReplayEntry read from a ledger file
LedgerEntry(s) ==
    [sequence |-> s, repo_id |-> "ledger", delayed_ms |-> 0, status |-> "buffered"]

\* OfflineReplayBuffer::new(max_entries, max_age), and no emitter yet
InitCommon ==
    /\ now = 0
    /\ max_entries \in 0..MaxEntries
    /\ max_age \in 0..MaxAge
    /\ inner = << >>
    /\ max_sequence_seen = None
    /\ held = << >>
    /\ config = [sequence_start |-> 0, retention_max_age |-> 0]
    /\ next_sequence = 0
    /\ queue = << >>
    /\ emits = 0
    /\ flushed_ok_max = 0
    /\ pushes = 0
    /\ pushed_max = 0
    /\ last = NoCall

\* ---------------------------------------- the values a vector store sees

\* repo ids "r", "s"; record keys "a", "a.tmp"; payloads "h", "i"
Repos == { << 114 >>, << 115 >> }
RecordKeys == { << 97 >>, << 97, 46, 116, 109, 112 >> }
Payloads == { << 104 >>, << 105 >> }
Slots == Repos \X RecordKeys

\* key ids "k1", "k2" and the secrets [1u8; 32], [2u8; 32]
K1 == << 107, 49 >>
K2 == << 107, 50 >>
KeyIds == { K1, K2 }
Secret(b) == [i \in 1..32 |-> b]
\* the set_current calls made: back to "k1" with its secret, "k1" with a
\* different secret, and the new id "k2"
Rotations == { << K1, Secret(1) >>, << K1, Secret(2) >>, << K2, Secret(2) >> }

\* the nonces OsRng produces
Nonces == { [i \in 1..NONCE_LEN |-> b] : b \in {0, 200} }

\* the paths atomic_write_bytes touches
AllPaths ==
    { make_path(sl[1], sl[2]) : sl \in Slots }
        \cup { with_extension_tmp(make_path(sl[1], sl[2])) : sl \in Slots }

NoDamage == [kind |-> "none", slot |-> << >>, from |-> << >>, pos |-> 0]
NoRes == [op |-> "none", repo_id |-> << >>, key |-> << >>, kind |-> "none",
          value |-> None, sequence |-> 0, entries |-> << >>]

\* a store that holds nothing and has assigned no sequence
StoreEmpty ==
    /\ store_inner = [sl \in Slots |-> None]
    /\ files = [p \in AllPaths |-> None]
    /\ store_next_sequence = 1
    /\ upserts = 0
    /\ written = [sl \in Slots |-> None]
    /\ damage = NoDamage
    /\ res = NoRes

\* no vector store in use
StoreIdle ==
    /\ encrypter = FALSE
    /\ kms = FALSE
    /\ fs_root = FALSE
    /\ current_id = K1
    /\ keys = [k \in KeyIds |-> None]
    /\ StoreEmpty

\* no replay buffer and no emitter in use
BufferIdle ==
    /\ now = 0
    /\ max_entries = 0
    /\ max_age = 0
    /\ inner = << >>
    /\ max_sequence_seen = None
    /\ held = << >>
    /\ config = [sequence_start |-> 0, retention_max_age |-> 0]
    /\ next_sequence = 0
    /\ queue = << >>
    /\ emits = 0
    /\ flushed_ok_max = 0
    /\ pushes = 0
    /\ pushed_max = 0
    /\ last = NoCall

\* InMemoryKeyManager::new_with_secret("k1", [1u8; 32])
new_with_secret == [k \in KeyIds |-> IF k = K1 THEN Some(Secret(1)) ELSE None]

\* VectorStore::new / with_fs_root / VectorStoreBuilder::build
StoreNew ==
    /\ encrypter \in BOOLEAN
    /\ kms \in BOOLEAN
    /\ fs_root \in BOOLEAN
    /\ current_id = K1
    /\ keys = new_with_secret
    /\ StoreEmpty

\* the clock advances between calls
Tick ==
    /\ pc # "setup"
    /\ now < MaxTime
    /\ now' = now + 1
    /\ last' = NoCall
    /\ UNCHANGED << max_entries, max_age, inner, max_sequence_seen, held, pc,
                    config, next_sequence, queue, emits, flushed_ok_max, pushes,
                    pushed_max >>
    /\ UNCHANGED storeVars
    /\ UNCHANGED serviceVars

\* ------------------------------------------- a buffer used on its own

\* buffer.push(entry)
Push ==
    /\ pc = "buffer"
    /\ pushes < MaxPushes
    /\ \E s \in 1..MaxSeq :
         LET r == push(Buf, LedgerEntry(s), now, max_entries, max_age)
         IN /\ inner' = r.inner
            /\ max_sequence_seen' = r.max_seen
            /\ pushed_max' = IF r.ok THEN Max(pushed_max, s) ELSE pushed_max
            /\ last' = [Call("push", IF r.ok THEN "Ok" ELSE "Misconfigured", 0)
                          EXCEPT !.evicted =
                              capacity_evicted(Buf, ReplayEnvelope(LedgerEntry(s), now, now),
                                               now, max_entries, max_age)]
    /\ pushes' = pushes + 1
    /\ UNCHANGED << now, max_entries, max_age, held, pc, config, next_sequence,
                    queue, emits, flushed_ok_max >>
    /\ UNCHANGED storeVars
    /\ UNCHANGED serviceVars

\* buffer.drain_ready()
DrainReady ==
    /\ pc = "buffer"
    /\ held = << >>
    /\ LET r == drain_ready(inner, now, max_age)
       IN /\ inner' = r.inner
          /\ held' = r.ready
    /\ last' = Call("drain", "Ok", 0)
    /\ UNCHANGED << now, max_entries, max_age, max_sequence_seen, pc, config,
                    next_sequence, queue, emits, flushed_ok_max, pushes,
                    pushed_max >>
    /\ UNCHANGED storeVars
    /\ UNCHANGED serviceVars

RemoveAt(s, i) == SubSeq(s, 1, i - 1) \o SubSeq(s, i + 1, Len(s))

\* buffer.requeue(ready) of one of the drained entries the caller holds
Requeue ==
    /\ pc = "buffer"
    /\ \E i \in 1..Len(held) :
         LET r == requeue(Buf, held[i], now, max_entries, max_age)
         IN /\ inner' = r.inner
            /\ max_sequence_seen' = r.max_seen
            /\ held' = RemoveAt(held, i)
            /\ pushed_max' = IF r.ok THEN Max(pushed_max, held[i].entry.sequence)
                              ELSE pushed_max
            /\ last' = [Call("requeue", IF r.ok THEN "Ok" ELSE "Misconfigured", i)
                          EXCEPT !.evicted =
                              capacity_evicted(Buf, held[i], now, max_entries, max_age)]
    /\ UNCHANGED << now, max_entries, max_age, pc, config, next_sequence, queue,
                    emits, flushed_ok_max, pushes >>
    /\ UNCHANGED storeVars
    /\ UNCHANGED serviceVars

\* the caller drops the first drained entry it holds
Discard ==
    /\ pc = "buffer"
    /\ held # << >>
    /\ held' = Tail(held)
    /\ last' = NoCall
    /\ UNCHANGED << now, max_entries, max_age, inner, max_sequence_seen, pc,
                    config, next_sequence, queue, emits, flushed_ok_max, pushes,
                    pushed_max >>
    /\ UNCHANGED storeVars
    /\ UNCHANGED serviceVars

InitBuffer == InitCommon /\ StoreIdle /\ ServiceIdle /\ pc = "buffer"

NextBuffer ==
    \/ Tick
    \/ Push
    \/ DrainReady
    \/ Requeue
    \/ Discard

SpecBuffer == InitBuffer /\ [][NextBuffer]_vars

\* ------------------------------------- an emitter on a preloaded buffer

\* buffer.push(entry) of a ledger entry, before the emitter is built; the
\* ledger holds its entries in increasing sequence order.  Once built, the
\* emitter is the only writer of its buffer.
Preload ==
    /\ pc = "setup"
    /\ pushes < MaxPreload
    /\ \E s \in 1..MaxSeq :
         /\ IF max_sequence_seen = None THEN TRUE ELSE s > max_sequence_seen[1]
         /\ LET r == push(Buf, LedgerEntry(s), now, max_entries, max_age)
            IN /\ inner' = r.inner
               /\ max_sequence_seen' = r.max_seen
               /\ pushed_max' = IF r.ok THEN Max(pushed_max, s) ELSE pushed_max
               /\ last' = [Call("push", IF r.ok THEN "Ok" ELSE "Misconfigured", 0)
                             EXCEPT !.evicted =
                                 capacity_evicted(Buf, ReplayEnvelope(LedgerEntry(s), now, now),
                                                  now, max_entries, max_age)]
    /\ pushes' = pushes + 1
    /\ UNCHANGED << now, max_entries, max_age, held, pc, config, next_sequence,
                    queue, emits, flushed_ok_max >>
    /\ UNCHANGED storeVars
    /\ UNCHANGED serviceVars

\* ManifestEmitter::new(config, buffer, queue)
New ==
    /\ pc = "setup"
    /\ \E ss \in 1..MaxSeq :
         \* the retention settings are the ones the buffer was built with
         /\ config' = [sequence_start |-> ss, retention_max_age |-> max_age]
         /\ next_sequence' = new_next_sequence(max_sequence, ss)
    /\ pc' = "running"
    /\ last' = Call("new", "Ok", 0)
    /\ UNCHANGED << now, max_entries, max_age, inner, max_sequence_seen, held,
                    queue, emits, flushed_ok_max, pushes, pushed_max >>
    /\ UNCHANGED storeVars
    /\ UNCHANGED serviceVars

\* the ManifestDiff values emit is called with
Diffs == [repo_id : {"diff"}, applied_at : 0..MaxTime]

\* emit on em = [inner, max_seen, queue, next]; ok: the queue accepts the send
emit(em, cfg, diff, ok, t, cap, maxage) ==
    LET sequence == em.next
        entry == build_entry(cfg, diff, sequence)
        send_entry == WithStatus(entry, "emitted")
        r == push([inner |-> em.inner, max_seen |-> em.max_seen],
                  buffered_entry(entry), t, cap, maxage)
    IN IF ok
       THEN [inner |-> em.inner, max_seen |-> em.max_seen,
             queue |-> Append(em.queue, send_entry),
             next |-> emit_next_sequence(sequence), ret |-> "Ok"]
       ELSE IF ~r.ok
       THEN [inner |-> em.inner, max_seen |-> em.max_seen, queue |-> em.queue,
             next |-> em.next, ret |-> "Buffer"]
       ELSE [inner |-> r.inner, max_seen |-> r.max_seen, queue |-> em.queue,
             next |-> emit_next_sequence(sequence), ret |-> "QueueOffline"]

\* flush_offline on em; accepts: the sends the queue accepts before it
\* rejects one; t: the clock at the drain; t2: the clock at the requeues
flush_offline(em, accepts, t, t2, cap, maxage) ==
    LET d == drain_ready(em.inner, t, maxage)
    IN flush_loop([inner |-> d.inner, max_seen |-> em.max_seen, queue |-> em.queue,
                   next |-> em.next, ret |-> "none"],
                  d.ready, accepts, t2, cap, maxage)

Em == [inner |-> inner, max_seen |-> max_sequence_seen, queue |-> queue,
       next |-> next_sequence]

\* ManifestEmitter::emit(diff, batch)
Emit ==
    /\ pc = "running"
    /\ next_sequence <= MaxSeq
    /\ emits < MaxSeq
    /\ \E diff \in Diffs, ok \in BOOLEAN :
         LET em == emit(Em, config, diff, ok, now, max_entries, max_age)
         IN /\ inner' = em.inner
            /\ max_sequence_seen' = em.max_seen
            /\ queue' = em.queue
            /\ next_sequence' = em.next
            /\ pushed_max' = IF em.ret = "QueueOffline"
                              THEN Max(pushed_max, next_sequence) ELSE pushed_max
            /\ last' = Call("emit", em.ret, IF ok THEN 1 ELSE 0)
    /\ emits' = emits + 1
    /\ UNCHANGED << now, max_entries, max_age, held, pc, config, flushed_ok_max,
                    pushes >>
    /\ UNCHANGED storeVars
    /\ UNCHANGED serviceVars

MaxSequenceOf(entries) ==
    IF entries = << >> THEN 0
    ELSE CHOOSE m \in {entries[i].sequence : i \in 1..Len(entries)} :
           \A i \in 1..Len(entries) : entries[i].sequence <= m

\* ManifestEmitter::flush_offline(); ticked: whether the clock advanced
\* while the sends were in flight
FlushOffline ==
    /\ pc = "running"
    /\ \E accepts \in 0..Len(drain_ready(inner, now, max_age).ready),
          ticked \in BOOLEAN :
         LET t2 == IF ticked THEN now + 1 ELSE now
             em == flush_offline(Em, accepts, now, t2, max_entries, max_age)
         IN /\ ticked => now < MaxTime
            /\ inner' = em.inner
            /\ max_sequence_seen' = em.max_seen
            /\ queue' = em.queue
            /\ next_sequence' = em.next
            /\ now' = t2
            /\ flushed_ok_max' =
                 IF em.ret = "Ok"
                 THEN Max(flushed_ok_max,
                          MaxSequenceOf(SubSeq(em.queue, Len(queue) + 1, Len(em.queue))))
                 ELSE flushed_ok_max
            /\ pushed_max' =
                 IF em.ret = "QueueOffline"
                 THEN LET d == drain_ready(inner, now, max_age).ready
                      IN Max(pushed_max,
                             MaxSequenceOf([i \in 1..(Len(d) - accepts) |->
                                               d[accepts + i].entry]))
                 ELSE pushed_max
            /\ last' = Call("flush", em.ret, accepts)
    /\ UNCHANGED << max_entries, max_age, held, pc, config, emits, pushes >>
    /\ UNCHANGED storeVars
    /\ UNCHANGED serviceVars

Init == InitCommon /\ StoreIdle /\ ServiceIdle /\ pc = "setup"

Next ==
    \/ Preload
    \/ New
    \/ Tick
    \/ Emit
    \/ FlushOffline

Spec == Init /\ [][Next]_vars

\* -------------------------------------------------- a vector store

\* if let (Some(enc), Some(kms)) = (&self.encrypter, &self.kms)
encryption_configured == encrypter /\ kms

\* the bytes upsert persists for a payload; nonce is what OsRng produced
upsert_bytes(repo_id, key, payload, nonce) ==
    IF encryption_configured
    THEN LET kh == kms_current(current_id, keys).handle
         IN seal(kh, payload, build_aad(repo_id, kh.key_id, key), nonce)
    ELSE payload

\* Store::upsert(repo_id, key, payload); io: where the filesystem write
\* returns.  The store's writes come before anything an outside writer does
\* to the stored bytes.  Where keys are rotated or the stored bytes are
\* changed behind the store, a write that fails fails before its tmp file
\* exists.
Upsert ==
    /\ pc \in {"store", "keys", "tamper"}
    /\ upserts < (IF pc = "tamper" THEN 1 ELSE MaxUpserts)
    /\ damage = NoDamage
    /\ \E sl \in Slots, payload \in Payloads, nonce \in Nonces, io \in IoOutcomes :
         LET repo_id == sl[1]
             key == sl[2]
             cur == kms_current(current_id, keys)
             failed(kind) ==
                 /\ res' = [NoRes EXCEPT !.op = "upsert", !.repo_id = repo_id,
                                         !.key = key, !.kind = kind]
                 /\ UNCHANGED << store_inner, store_next_sequence, written >>
         IN /\ (io # "ok") => fs_root
            /\ (io \in { "write", "rename" }) => pc = "store"
            /\ IF encryption_configured /\ ~cur.ok
               THEN failed("Key") /\ UNCHANGED files
               ELSE LET bytes == upsert_bytes(repo_id, key, payload, nonce)
                    IN
                      IF io # "ok"
                      THEN /\ files' = atomic_write_bytes_err(files, repo_id, key,
                                                              bytes, io)
                           /\ failed("Io")
                      ELSE
                      /\ IF fs_root
                         THEN /\ files' = atomic_write_bytes(files, repo_id, key, bytes)
                              /\ UNCHANGED store_inner
                         ELSE /\ store_inner' = [store_inner EXCEPT ![sl] = Some(bytes)]
                              /\ UNCHANGED files
                      /\ store_next_sequence' = store_next_sequence + 1
                      /\ written' = [written EXCEPT ![sl] =
                                        Some([payload |-> payload,
                                              key_id |-> current_id,
                                              key_bytes |-> keys[current_id]])]
                      /\ res' = [NoRes EXCEPT
                                    !.op = "upsert", !.repo_id = repo_id, !.key = key,
                                    !.kind = "Ok",
                                    !.sequence =
                                        build_replay_entry(store_next_sequence, repo_id,
                                                           "emitted").sequence]
    /\ upserts' = upserts + 1
    /\ UNCHANGED << encrypter, kms, fs_root, current_id, keys, damage, pc >>
    /\ UNCHANGED bufferVars
    /\ UNCHANGED serviceVars

\* the stored bytes get reads: the file when fs_root is set, the map entry
\* when the file is missing or no fs_root is set
stored_bytes(repo_id, key) ==
    IF fs_root /\ read_bytes(files, repo_id, key) # None
    THEN read_bytes(files, repo_id, key)
    ELSE store_inner[<< repo_id, key >>]

\* variant of get's envelope check that passes unrecognised bytes through
get_passthrough(repo_id, key) ==
    LET found == stored_bytes(repo_id, key)
    IN IF found # None /\ encryption_configured /\ peek_key_id(found[1]) = None
       THEN [kind |-> "Ok", value |-> found]
       ELSE [kind |-> "Encryption", value |-> None]

\* get, encryption configured but peek_key_id found no envelope
get_invalid_envelope(repo_id, key) == [kind |-> "Encryption", value |-> None]

\* Store::get(repo_id, key): Ok(value) or an error kind
get(repo_id, key) ==
    LET found == stored_bytes(repo_id, key)
    IN IF found = None THEN [kind |-> "Ok", value |-> None]
       ELSE LET bytes == found[1]
                kid == peek_key_id(bytes)
            IN IF ~encryption_configured THEN [kind |-> "Ok", value |-> Some(bytes)]
               ELSE IF kid = None THEN get_invalid_envelope(repo_id, key)
               ELSE LET k == kms_get(keys, kid[1])
                        aad == build_aad(repo_id, k.handle.key_id, key)
                    IN IF ~k.ok THEN [kind |-> "Key", value |-> None]
                       ELSE Eval(open(k.handle, bytes, aad),
                                 LAMBDA pt :
                                     IF ~pt.ok THEN [kind |-> "Encryption", value |-> None]
                                     ELSE [kind |-> "Ok", value |-> Some(pt.buf)])

\* Store::get(repo_id, key)
Get ==
    /\ pc \in {"store", "keys", "tamper"}
    /\ \E sl \in Slots :
         \E r \in { get(sl[1], sl[2]) } :
            res' = [NoRes EXCEPT !.op = "get", !.repo_id = sl[1], !.key = sl[2],
                                 !.kind = r.kind, !.value = r.value]
    /\ UNCHANGED << encrypter, kms, fs_root, store_inner, files, store_next_sequence,
                    current_id, keys, upserts, written, damage, pc >>
    /\ UNCHANGED bufferVars
    /\ UNCHANGED serviceVars

\* the replay entries a caller passes: up to two, in any order
ReplayInputs ==
    { << >> }
        \cup { << build_replay_entry(a, << 114 >>, "emitted") >> : a \in 1..MaxSeq }
        \cup { << build_replay_entry(a, << 114 >>, "emitted"),
                  build_replay_entry(b, << 114 >>, "emitted") >> :
               a \in 1..MaxSeq, b \in 1..MaxSeq }

\* replay: the fold computing max_seq
RECURSIVE replay_max_seq(_, _)
replay_max_seq(max_seq, entries) ==
    IF entries = << >> THEN max_seq
    ELSE replay_max_seq(
             Some(IF max_seq # None THEN Max(max_seq[1], Head(entries).sequence)
                  ELSE Head(entries).sequence),
             Tail(entries))

\* variant of the counter update that stores m + 1 whatever the counter holds
replay_next_sequence_set(current, max_seq) ==
    IF max_seq = None THEN current ELSE max_seq[1] + 1

\* replay: the compare_exchange loop, which stores m + 1 while m + 1 > current
replay_next_sequence(current, max_seq) ==
    IF max_seq # None /\ max_seq[1] + 1 > current THEN max_seq[1] + 1 ELSE current

\* Store::replay(entries)
Replay ==
    /\ pc = "store"
    /\ \E entries \in ReplayInputs :
         /\ store_next_sequence' =
               replay_next_sequence(store_next_sequence, replay_max_seq(None, entries))
         /\ res' = [NoRes EXCEPT !.op = "replay", !.kind = "Ok", !.entries = entries]
    /\ UNCHANGED << encrypter, kms, fs_root, store_inner, files, current_id, keys,
                    upserts, written, damage, pc >>
    /\ UNCHANGED bufferVars
    /\ UNCHANGED serviceVars

\* InMemoryKeyManager::set_current(id, key)
SetCurrent ==
    /\ pc = "keys"
    /\ \E rot \in Rotations :
         LET id == rot[1]
             key == rot[2]
         IN /\ keys' = [keys EXCEPT ![id] = Some(key)]
            /\ current_id' = id
    /\ res' = [NoRes EXCEPT !.op = "set_current"]
    /\ UNCHANGED << encrypter, kms, fs_root, store_inner, files, store_next_sequence,
                    upserts, written, damage, pc >>
    /\ UNCHANGED bufferVars
    /\ UNCHANGED serviceVars

\* a store of any configuration, its key manager left alone
InitStore == BufferIdle /\ StoreNew /\ ServiceIdle /\ pc = "store"

NextStore ==
    \/ Upsert
    \/ Get
    \/ Replay

SpecStore == InitStore /\ [][NextStore]_vars

\* an encrypted store whose key manager is rotated
InitKeys ==
    BufferIdle /\ StoreNew /\ ServiceIdle /\ encryption_configured /\ pc = "keys"

NextKeys ==
    \/ Upsert
    \/ Get
    \/ SetCurrent

SpecKeys == InitKeys /\ [][NextKeys]_vars

\* ------------------------------ stored bytes changed behind the store

\* b with its low k bits flipped (k = 8: b ^ 0xFF)
FlipLow(b, k) == (b - (b % (2 ^ k))) + ((2 ^ k) - 1 - (b % (2 ^ k)))

\* std::fs::write on the record's file, or a write into the map entry
raw_write(sl, bytes) ==
    IF fs_root
    THEN /\ files' = [files EXCEPT ![make_path(sl[1], sl[2])] = Some(bytes)]
         /\ UNCHANGED store_inner
    ELSE /\ store_inner' = [store_inner EXCEPT ![sl] = Some(bytes)]
         /\ UNCHANGED files

Damage(kind, sl, from, pos) == [kind |-> kind, slot |-> sl, from |-> from, pos |-> pos]

\* one byte of a stored envelope is modified in place
TamperByte ==
    /\ pc = "tamper"
    /\ damage = NoDamage
    /\ \E sl \in Slots, k \in {2, 8} :
         /\ stored_bytes(sl[1], sl[2]) # None
         /\ \E bytes \in { stored_bytes(sl[1], sl[2])[1] } :
              \E pos \in 1..Len(bytes) :
                 /\ raw_write(sl, [bytes EXCEPT ![pos] = FlipLow(@, k)])
                 /\ damage' = Damage("byte", sl, sl, pos)
    /\ res' = NoRes
    /\ UNCHANGED << encrypter, kms, fs_root, store_next_sequence, current_id, keys,
                    upserts, written, pc >>
    /\ UNCHANGED bufferVars
    /\ UNCHANGED serviceVars

\* a stored envelope is cut short
Truncate ==
    /\ pc = "tamper"
    /\ damage = NoDamage
    /\ \E sl \in Slots :
         /\ stored_bytes(sl[1], sl[2]) # None
         /\ \E bytes \in { stored_bytes(sl[1], sl[2])[1] } :
              \E n \in 0..(Len(bytes) - 1) :
                 /\ raw_write(sl, SubSeq(bytes, 1, n))
                 /\ damage' = Damage("truncated", sl, sl, n)
    /\ res' = NoRes
    /\ UNCHANGED << encrypter, kms, fs_root, store_next_sequence, current_id, keys,
                    upserts, written, pc >>
    /\ UNCHANGED bufferVars
    /\ UNCHANGED serviceVars

\* the stored bytes of one record are placed under another (repo_id, key)
Transplant ==
    /\ pc = "tamper"
    /\ damage = NoDamage
    /\ \E from \in Slots, to \in Slots :
         /\ from # to
         /\ stored_bytes(from[1], from[2]) # None
         /\ raw_write(to, stored_bytes(from[1], from[2])[1])
         /\ damage' = Damage("moved", to, from, 0)
    /\ res' = NoRes
    /\ UNCHANGED << encrypter, kms, fs_root, store_next_sequence, current_id, keys,
                    upserts, written, pc >>
    /\ UNCHANGED bufferVars
    /\ UNCHANGED serviceVars

\* bytes that were never sealed are placed under a (repo_id, key)
WritePlain ==
    /\ pc = "tamper"
    /\ damage = NoDamage
    /\ \E sl \in Slots, payload \in Payloads :
         /\ raw_write(sl, payload)
         /\ damage' = Damage("plain", sl, sl, 0)
    /\ res' = NoRes
    /\ UNCHANGED << encrypter, kms, fs_root, store_next_sequence, current_id, keys,
                    upserts, written, pc >>
    /\ UNCHANGED bufferVars
    /\ UNCHANGED serviceVars

\* an encrypted store whose key manager may already hold "k2"
InitTamper ==
    /\ BufferIdle
    /\ encrypter = TRUE
    /\ kms = TRUE
    /\ fs_root \in BOOLEAN
    /\ current_id = K1
    /\ keys \in { new_with_secret, [new_with_secret EXCEPT ![K2] = Some(Secret(2))] }
    /\ StoreEmpty
    /\ ServiceIdle
    /\ pc = "tamper"

NextTamper ==
    \/ Upsert
    \/ Get
    \/ TamperByte
    \/ Truncate
    \/ Transplant
    \/ WritePlain

SpecTamper == InitTamper /\ [][NextTamper]_vars

\* ------------------- storage-vector/src/store/mod.rs: concurrent callers

MaxRaceCalls == 3   \* upsert and replay calls started on one shared store

\* the record the racing upserts write, and the nonce OsRng hands them
RaceSlots == { << << 114 >>, << 97 >> >> }
RaceNonces == { [i \in 1..NONCE_LEN |-> 0] }

\* a call that has returned; an upsert that returned an error has no
\* sequence number (value 0)
Returned(t, op, ok, value, floor) ==
    [thread |-> t, op |-> op, ok |-> ok, value |-> value, floor |-> floor]

\* the largest max_sequence among the replay calls that have returned
RECURSIVE ReplayFloor(_)
ReplayFloor(log) ==
    IF log = << >> THEN 0
    ELSE LET e == log[Len(log)]
             rest == ReplayFloor(SubSeq(log, 1, Len(log) - 1))
         IN IF e.op = "replay" /\ e.value # None THEN Max(e.value[1], rest) ELSE rest

\* the calls started so far
RaceCalls == Len(returned) + Cardinality({ t \in Threads : workers[t] # Idle })

\* AtomicU64::compare_exchange(current, new) on a cell holding actual
compare_exchange(actual, current, new) ==
    IF actual = current THEN [ok |-> TRUE, cell |-> new, prev |-> actual]
    ELSE [ok |-> FALSE, cell |-> actual, prev |-> actual]

\* variant of the loop body that keeps the stale value after a failed exchange
replay_cas_stale(actual, current, m) ==
    IF m + 1 > current
    THEN LET x == compare_exchange(actual, current, m + 1)
         IN [done |-> x.ok, cell |-> x.cell, current |-> current]
    ELSE [done |-> TRUE, cell |-> actual, current |-> current]

\* one turn of replay's loop: while m + 1 > current { match compare_exchange
\* { Ok(_) => break, Err(now) => current = now } }
replay_cas(actual, current, m) ==
    IF m + 1 > current
    THEN LET x == compare_exchange(actual, current, m + 1)
         IN [done |-> x.ok, cell |-> x.cell,
             current |-> IF x.ok THEN current ELSE x.prev]
    ELSE [done |-> TRUE, cell |-> actual, current |-> current]

\* upsert up to its write: an error returns here, a success goes on to the
\* fetch_add
UpsertWrite(t) ==
    /\ pc = "race"
    /\ workers[t] = Idle
    /\ RaceCalls < MaxRaceCalls
    /\ \E sl \in RaceSlots, payload \in Payloads, nonce \in RaceNonces,
          io \in IoOutcomes :
         LET repo_id == sl[1]
             key == sl[2]
             cur == kms_current(current_id, keys)
             failed(kind) ==
                 /\ returned' = Append(returned, Returned(t, "upsert", FALSE, 0, 0))
                 /\ UNCHANGED << store_inner, written, workers >>
         IN /\ (io # "ok") => fs_root
            /\ IF encryption_configured /\ ~cur.ok
               THEN failed("Key") /\ UNCHANGED files
               ELSE LET bytes == upsert_bytes(repo_id, key, payload, nonce)
                    IN
                      IF io # "ok"
                      THEN /\ files' = atomic_write_bytes_err(files, repo_id, key,
                                                              bytes, io)
                           /\ failed("Io")
                      ELSE
                      /\ IF fs_root
                         THEN /\ files' = atomic_write_bytes(files, repo_id, key, bytes)
                              /\ UNCHANGED store_inner
                         ELSE /\ store_inner' = [store_inner EXCEPT ![sl] = Some(bytes)]
                              /\ UNCHANGED files
                      /\ written' = [written EXCEPT ![sl] =
                                        Some([payload |-> payload,
                                              key_id |-> current_id,
                                              key_bytes |-> keys[current_id]])]
                      /\ workers' = [workers EXCEPT ![t] =
                                        [op |-> "upsert", at |-> "fetch_add",
                                         floor |-> ReplayFloor(returned)]]
                      /\ UNCHANGED returned
    /\ UNCHANGED << encrypter, kms, fs_root, store_next_sequence, current_id, keys,
                    upserts, damage, res >>
    /\ UNCHANGED << bufferVars, pc >>
    /\ UNCHANGED << transportVars, plannerVars >>

\* upsert: let seq = self.next_sequence.fetch_add(1, SeqCst), and the return
UpsertFetchAdd(t) ==
    /\ pc = "race"
    /\ workers[t] # Idle
    /\ workers[t].op = "upsert"
    /\ store_next_sequence' = store_next_sequence + 1
    /\ returned' = Append(returned, Returned(t, "upsert", TRUE, store_next_sequence,
                                             workers[t].floor))
    /\ workers' = [workers EXCEPT ![t] = Idle]
    /\ UNCHANGED << encrypter, kms, fs_root, store_inner, files, current_id, keys,
                    upserts, written, damage, res >>
    /\ UNCHANGED << bufferVars, pc >>
    /\ UNCHANGED << transportVars, plannerVars >>

\* replay: the fold over the entries; with no entry the call returns here
ReplayFold(t) ==
    /\ pc = "race"
    /\ workers[t] = Idle
    /\ RaceCalls < MaxRaceCalls
    /\ \E entries \in ReplayInputs :
         LET max_seq == replay_max_seq(None, entries)
         IN IF max_seq = None
            THEN /\ returned' = Append(returned, Returned(t, "replay", TRUE, None, 0))
                 /\ UNCHANGED workers
            ELSE /\ workers' = [workers EXCEPT ![t] =
                                   [op |-> "replay", at |-> "load", m |-> max_seq[1]]]
                 /\ UNCHANGED returned
    /\ UNCHANGED storeVars
    /\ UNCHANGED << bufferVars, pc >>
    /\ UNCHANGED << transportVars, plannerVars >>

\* replay: let mut current = self.next_sequence.load(SeqCst)
ReplayLoad(t) ==
    /\ pc = "race"
    /\ workers[t] # Idle
    /\ workers[t].op = "replay"
    /\ workers[t].at = "load"
    /\ workers' = [workers EXCEPT ![t] =
                      [op |-> "replay", at |-> "loop", m |-> workers[t].m,
                       current |-> store_next_sequence]]
    /\ UNCHANGED returned
    /\ UNCHANGED storeVars
    /\ UNCHANGED << bufferVars, pc >>
    /\ UNCHANGED << transportVars, plannerVars >>

\* replay: one turn of the compare_exchange loop, and the return after it
ReplayLoop(t) ==
    /\ pc = "race"
    /\ workers[t] # Idle
    /\ workers[t].op = "replay"
    /\ workers[t].at = "loop"
    /\ \E r \in { replay_cas(store_next_sequence, workers[t].current, workers[t].m) } :
         /\ store_next_sequence' = r.cell
         /\ IF r.done
            THEN /\ workers' = [workers EXCEPT ![t] = Idle]
                 /\ returned' = Append(returned, Returned(t, "replay", TRUE,
                                                          Some(workers[t].m), 0))
            ELSE /\ workers' = [workers EXCEPT ![t].current = r.current]
                 /\ UNCHANGED returned
    /\ UNCHANGED << encrypter, kms, fs_root, store_inner, files, current_id, keys,
                    upserts, written, damage, res >>
    /\ UNCHANGED << bufferVars, pc >>
    /\ UNCHANGED << transportVars, plannerVars >>

\* one store shared by the threads
InitRace == BufferIdle /\ StoreNew /\ ServiceIdle /\ pc = "race"

NextRace ==
    \/ \E t \in Threads : UpsertWrite(t)
    \/ \E t \in Threads : UpsertFetchAdd(t)
    \/ \E t \in Threads : ReplayFold(t)
    \/ \E t \in Threads : ReplayLoad(t)
    \/ \E t \in Threads : ReplayLoop(t)

\* every thread in a call is scheduled again
SpecRace ==
    /\ InitRace
    /\ [][NextRace]_vars
    /\ \A t \in Threads : WF_vars(UpsertFetchAdd(t))
    /\ \A t \in Threads : WF_vars(ReplayLoad(t))
    /\ \A t \in Threads : WF_vars(ReplayLoop(t))

\* -------------------------- storage-ledger/src/lib.rs: concurrent callers

MaxSharedCalls == 3 \* calls started on the clones of one buffer handle

\* the positions of a call at which its thread holds the guard of inner
GuardHeld == { "max_seen", "push_back", "purge", "evict", "drain" }

\* the threads holding the guard of inner
Holders == { t \in Threads : workers[t] # Idle /\ workers[t].at \in GuardHeld }

\* variant of the lock that lets a caller in while another holds the guard
mutex_lock_unguarded(holders) == TRUE

\* self.inner.lock(): the caller gets the guard once no one holds it
mutex_lock(holders) == holders = { }

\* the sequence numbers of the entries in the buffer, with the callers, and
\* on their way into the buffer
InFlight ==
    { t \in Threads : workers[t] # Idle /\ workers[t].op \in {"push", "requeue"}
                      /\ workers[t].at \in {"lock", "max_seen", "push_back"} }
SequencesInUse ==
    { inner[i].entry.sequence : i \in 1..Len(inner) }
        \cup { held[i].entry.sequence : i \in 1..Len(held) }
        \cup { workers[t].env.entry.sequence : t \in InFlight }

\* a call in the order in which the calls took effect
SharedCall(t, op, ok, env, at, value) ==
    [thread |-> t, op |-> op, ok |-> ok, env |-> env, at |-> at, value |-> value]

\* push: let now = SystemTime::now(), and push_envelope's max_entries test
PushStamp(t) ==
    /\ pc = "shared"
    /\ workers[t] = Idle
    /\ pushes < MaxSharedCalls
    /\ pushes' = pushes + 1
    /\ \E s \in (1..MaxSeq) \ SequencesInUse :
         \E env \in { ReplayEnvelope(LedgerEntry(s), now, now) } :
           IF max_entries = 0
           THEN /\ returned' = Append(returned,
                                      SharedCall(t, "push", FALSE, env, now, << >>))
                /\ UNCHANGED workers
           ELSE /\ workers' = [workers EXCEPT ![t] =
                                  [op |-> "push", at |-> "lock", env |-> env, t |-> 0]]
                /\ UNCHANGED returned
    /\ last' = NoCall
    /\ UNCHANGED << now, max_entries, max_age, inner, max_sequence_seen, held,
                    config, next_sequence, queue, emits, flushed_ok_max,
                    pushed_max, pc >>
    /\ UNCHANGED storeVars
    /\ UNCHANGED << transportVars, plannerVars >>

\* requeue(ready) of an entry a drain returned: inserted_at = ready.inserted_at
RequeueStart(t) ==
    /\ pc = "shared"
    /\ workers[t] = Idle
    /\ pushes < MaxSharedCalls
    /\ pushes' = pushes + 1
    /\ \E i \in 1..Len(held) :
         \E env \in { ReplayEnvelope(held[i].entry, held[i].inserted_at, held[i].born) } :
           /\ held' = RemoveAt(held, i)
           /\ IF max_entries = 0
              THEN /\ returned' = Append(returned,
                                         SharedCall(t, "requeue", FALSE, env, now, << >>))
                   /\ UNCHANGED workers
              ELSE /\ workers' = [workers EXCEPT ![t] =
                                     [op |-> "requeue", at |-> "lock", env |-> env,
                                      t |-> 0]]
                   /\ UNCHANGED returned
    /\ last' = NoCall
    /\ UNCHANGED << now, max_entries, max_age, inner, max_sequence_seen,
                    config, next_sequence, queue, emits, flushed_ok_max,
                    pushed_max, pc >>
    /\ UNCHANGED storeVars
    /\ UNCHANGED << transportVars, plannerVars >>

\* push_envelope: let mut guard = self.inner.lock(); let now = SystemTime::now()
PushLock(t) ==
    /\ pc = "shared"
    /\ workers[t] # Idle
    /\ workers[t].op \in {"push", "requeue"}
    /\ workers[t].at = "lock"
    /\ mutex_lock(Holders)
    /\ workers' = [workers EXCEPT ![t].at = "max_seen", ![t].t = now]
    /\ last' = NoCall
    /\ UNCHANGED << now, max_entries, max_age, inner, max_sequence_seen, held,
                    config, next_sequence, queue, emits, flushed_ok_max, pushes,
                    pushed_max, pc, returned >>
    /\ UNCHANGED storeVars
    /\ UNCHANGED << transportVars, plannerVars >>

\* push_envelope: the update of max_sequence_seen under its own lock
PushMaxSeen(t) ==
    /\ pc = "shared"
    /\ workers[t] # Idle
    /\ workers[t].op \in {"push", "requeue"}
    /\ workers[t].at = "max_seen"
    /\ max_sequence_seen' =
          bump_max_seen(max_sequence_seen, workers[t].env.entry.sequence)
    /\ returned' = Append(returned, SharedCall(t, workers[t].op, TRUE, workers[t].env,
                                               workers[t].t, << >>))
    /\ workers' = [workers EXCEPT ![t].at = "push_back"]
    /\ last' = NoCall
    /\ UNCHANGED << now, max_entries, max_age, inner, held, config, next_sequence,
                    queue, emits, flushed_ok_max, pushes, pushed_max, pc >>
    /\ UNCHANGED storeVars
    /\ UNCHANGED << transportVars, plannerVars >>

\* push_envelope: guard.push_back(ReplayEnvelope { entry, inserted_at })
PushBack(t) ==
    /\ pc = "shared"
    /\ workers[t] # Idle
    /\ workers[t].op \in {"push", "requeue"}
    /\ workers[t].at = "push_back"
    /\ inner' = Append(inner, workers[t].env)
    /\ workers' = [workers EXCEPT ![t].at = "purge"]
    /\ last' = NoCall
    /\ UNCHANGED << now, max_entries, max_age, max_sequence_seen, held, config,
                    next_sequence, queue, emits, flushed_ok_max, pushes,
                    pushed_max, pc, returned >>
    /\ UNCHANGED storeVars
    /\ UNCHANGED << transportVars, plannerVars >>

\* push_envelope and drain_ready: self.purge_locked(&mut guard, now)
SharedPurge(t) ==
    /\ pc = "shared"
    /\ workers[t] # Idle
    /\ workers[t].at = "purge"
    /\ inner' = purge_locked(inner, workers[t].t, max_age)
    /\ workers' = [workers EXCEPT ![t].at =
                      IF workers[t].op = "drain" THEN "drain" ELSE "evict"]
    /\ last' = NoCall
    /\ UNCHANGED << now, max_entries, max_age, max_sequence_seen, held, config,
                    next_sequence, queue, emits, flushed_ok_max, pushes,
                    pushed_max, pc, returned >>
    /\ UNCHANGED storeVars
    /\ UNCHANGED << transportVars, plannerVars >>

\* push_envelope: the pop_front loop, then the guard is dropped
PushEvict(t) ==
    /\ pc = "shared"
    /\ workers[t] # Idle
    /\ workers[t].at = "evict"
    /\ inner' = evict_front(inner, max_entries)
    /\ workers' = [workers EXCEPT ![t] = Idle]
    /\ last' = NoCall
    /\ UNCHANGED << now, max_entries, max_age, max_sequence_seen, held, config,
                    next_sequence, queue, emits, flushed_ok_max, pushes,
                    pushed_max, pc, returned >>
    /\ UNCHANGED storeVars
    /\ UNCHANGED << transportVars, plannerVars >>

\* drain_ready: let mut guard = self.inner.lock(); let now = SystemTime::now()
DrainLock(t) ==
    /\ pc = "shared"
    /\ workers[t] = Idle
    /\ pushes < MaxSharedCalls
    /\ pushes' = pushes + 1
    /\ mutex_lock(Holders)
    /\ workers' = [workers EXCEPT ![t] =
                      [op |-> "drain", at |-> "purge", t |-> now,
                       index |-> Len(returned) + 1]]
    /\ returned' = Append(returned, SharedCall(t, "drain", TRUE, << >>, now, << >>))
    /\ last' = NoCall
    /\ UNCHANGED << now, max_entries, max_age, inner, max_sequence_seen, held,
                    config, next_sequence, queue, emits, flushed_ok_max,
                    pushed_max, pc >>
    /\ UNCHANGED storeVars
    /\ UNCHANGED << transportVars, plannerVars >>

\* drain_ready: guard.drain(..).map(..).collect(), then the guard is dropped
DrainTake(t) ==
    /\ pc = "shared"
    /\ workers[t] # Idle
    /\ workers[t].at = "drain"
    /\ \E ready \in { map_ready(inner) } :
         /\ held' = held \o ready
         /\ returned' = [returned EXCEPT ![workers[t].index].value = ready]
    /\ inner' = << >>
    /\ workers' = [workers EXCEPT ![t] = Idle]
    /\ last' = NoCall
    /\ UNCHANGED << now, max_entries, max_age, max_sequence_seen, config,
                    next_sequence, queue, emits, flushed_ok_max, pushes,
                    pushed_max, pc >>
    /\ UNCHANGED storeVars
    /\ UNCHANGED << transportVars, plannerVars >>

\* one buffer shared by the threads through clones of its handle
InitShared == InitCommon /\ StoreIdle /\ ServiceIdle /\ pc = "shared"

NextShared ==
    \/ Tick
    \/ \E t \in Threads : PushStamp(t)
    \/ \E t \in Threads : RequeueStart(t)
    \/ \E t \in Threads : PushLock(t)
    \/ \E t \in Threads : PushMaxSeen(t)
    \/ \E t \in Threads : PushBack(t)
    \/ \E t \in Threads : SharedPurge(t)
    \/ \E t \in Threads : PushEvict(t)
    \/ \E t \in Threads : DrainLock(t)
    \/ \E t \in Threads : DrainTake(t)

SpecShared == InitShared /\ [][NextShared]_vars

\* ------------------------- runtime-transport-stdio/src/lib.rs: RetryBuffer

\* RetryPayload { sequence, command, payload, token_id }
RetryPayload(sequence) ==
    [sequence |-> sequence, command |-> "ingest", token_id |-> "tok"]

\* RetryEntry { payload, enqueued_at, attempts }
RetryEntry(payload, enqueued_at, attempts) ==
    [payload |-> payload, enqueued_at |-> enqueued_at, attempts |-> attempts]

\* push_entry without the increment of attempts
attempts_unchanged(attempts) == attempts

\* u32::saturating_add(1); an entry is pushed at most a few times, so attempts
\* stays far below u32::MAX and the sum never saturates
saturating_add_1(attempts) == attempts + 1

\* while guard.len() >= self.max_entries { guard.pop_front(); }
RECURSIVE retry_evict_front(_, _)
retry_evict_front(guard, cap) ==
    IF guard # << >> /\ Len(guard) >= cap THEN retry_evict_front(Tail(guard), cap)
    ELSE guard

\* RetryBuffer::push_entry on a buffer value b = [inner, max_seen]
push_entry(b, entry, cap) ==
    IF cap = 0
    THEN [ok |-> FALSE, inner |-> b.inner, max_seen |-> b.max_seen]
    ELSE [ok |-> TRUE,
          inner |-> Append(retry_evict_front(b.inner, cap),
                           [entry EXCEPT !.attempts = saturating_add_1(@)]),
          max_seen |-> bump_max_seen(b.max_seen, entry.payload.sequence)]

\* RetryBuffer::enqueue: enqueued_at = now, attempts = 0
enqueue(b, payload, t, cap) == push_entry(b, RetryEntry(payload, t, 0), cap)

\* RetryBuffer::enqueue_at
enqueue_at(b, payload, enqueued_at, cap) ==
    push_entry(b, RetryEntry(payload, enqueued_at, 0), cap)

\* RetryBuffer::requeue
retry_requeue(b, entry, cap) == push_entry(b, entry, cap)

\* the retain closure of RetryBuffer::drain_ready
retry_retained(entry, t, maxage) ==
    LET d == duration_since(t, entry.enqueued_at)
    IN IF d.ok THEN d.age <= maxage ELSE TRUE

\* RetryBuffer::drain_ready
retry_drain_ready(guard, t, maxage) ==
    [ready |-> SelectSeq(guard, LAMBDA e : retry_retained(e, t, maxage)),
     inner |-> << >>]

\* RetryBuffer::new(max_entries, max_age)
InitRetry ==
    /\ InitCommon
    /\ StoreIdle
    /\ ServiceIdle
    /\ pc = "retry"

\* buffer.enqueue(payload)
RetryEnqueue ==
    /\ pc = "retry"
    /\ pushes < MaxPushes
    /\ \E s \in 1..MaxSeq :
         LET r == enqueue(Buf, RetryPayload(s), now, max_entries)
         IN /\ inner' = r.inner
            /\ max_sequence_seen' = r.max_seen
            /\ pushed_max' = IF r.ok THEN Max(pushed_max, s) ELSE pushed_max
            /\ last' = Call("enqueue", IF r.ok THEN "Ok" ELSE "Misconfigured", 0)
    /\ pushes' = pushes + 1
    /\ UNCHANGED << now, max_entries, max_age, held, pc, config, next_sequence,
                    queue, emits, flushed_ok_max >>
    /\ UNCHANGED storeVars
    /\ UNCHANGED serviceVars

\* buffer.enqueue_at(payload, enqueued_at) with a timestamp of a snapshot
RetryEnqueueAt ==
    /\ pc = "retry"
    /\ pushes < MaxPushes
    /\ \E s \in 1..MaxSeq, at \in 0..MaxTime :
         LET r == enqueue_at(Buf, RetryPayload(s), at, max_entries)
         IN /\ inner' = r.inner
            /\ max_sequence_seen' = r.max_seen
            /\ pushed_max' = IF r.ok THEN Max(pushed_max, s) ELSE pushed_max
            /\ last' = Call("enqueue_at", IF r.ok THEN "Ok" ELSE "Misconfigured", 0)
    /\ pushes' = pushes + 1
    /\ UNCHANGED << now, max_entries, max_age, held, pc, config, next_sequence,
                    queue, emits, flushed_ok_max >>
    /\ UNCHANGED storeVars
    /\ UNCHANGED serviceVars

\* buffer.drain_ready(); the caller keeps the entries it got
RetryDrainReady ==
    /\ pc = "retry"
    /\ held = << >>
    /\ LET r == retry_drain_ready(inner, now, max_age)
       IN /\ inner' = r.inner
          /\ held' = r.ready
    /\ last' = Call("drain", "Ok", 0)
    /\ UNCHANGED << now, max_entries, max_age, max_sequence_seen, pc, config,
                    next_sequence, queue, emits, flushed_ok_max, pushes,
                    pushed_max >>
    /\ UNCHANGED storeVars
    /\ UNCHANGED serviceVars

\* buffer.requeue(entry) of one of the drained entries the caller holds
RetryRequeue ==
    /\ pc = "retry"
    /\ \E i \in 1..Len(held) :
         LET r == retry_requeue(Buf, held[i], max_entries)
         IN /\ held[i].attempts < MaxAttempts
            /\ inner' = r.inner
            /\ max_sequence_seen' = r.max_seen
            /\ held' = RemoveAt(held, i)
            /\ pushed_max' = IF r.ok THEN Max(pushed_max, held[i].payload.sequence)
                              ELSE pushed_max
            /\ last' = Call("requeue", IF r.ok THEN "Ok" ELSE "Misconfigured", i)
    /\ UNCHANGED << now, max_entries, max_age, pc, config, next_sequence, queue,
                    emits, flushed_ok_max, pushes >>
    /\ UNCHANGED storeVars
    /\ UNCHANGED serviceVars

\* the caller drops the first drained entry it holds
RetryDiscard ==
    /\ pc = "retry"
    /\ held # << >>
    /\ held' = Tail(held)
    /\ last' = NoCall
    /\ UNCHANGED << now, max_entries, max_age, inner, max_sequence_seen, pc,
                    config, next_sequence, queue, emits, flushed_ok_max, pushes,
                    pushed_max >>
    /\ UNCHANGED storeVars
    /\ UNCHANGED serviceVars

NextRetry ==
    \/ Tick
    \/ RetryEnqueue
    \/ RetryEnqueueAt
    \/ RetryDrainReady
    \/ RetryRequeue
    \/ RetryDiscard

SpecRetry == InitRetry /\ [][NextRetry]_vars

\* ----------------------------------------- ingestion-workspace/src/lib.rs

\* IgnoreRule { source, pattern }
IgnoreRule(source, pattern) == [source |-> source, pattern |-> pattern]

\* push_rule: if seen.insert(rule.pattern.clone()) { stack.push(rule) }
push_rule(stack, seen, rule) ==
    IF rule.pattern \in seen THEN [stack |-> stack, seen |-> seen]
    ELSE [stack |-> Append(stack, rule), seen |-> seen \cup { rule.pattern }]

\* the loops of merge_ignore_stack over the global and the sandbox rules
RECURSIVE push_rules(_, _, _)
push_rules(stack, seen, rules) ==
    IF rules = << >> THEN [stack |-> stack, seen |-> seen]
    ELSE LET r == push_rule(stack, seen, Head(rules))
         IN push_rules(r.stack, r.seen, Tail(rules))

\* the loop over the rules of the repository: a pattern seen before is taken
\* out of seen and of the stack, then pushed
RECURSIVE push_repo_rules(_, _, _)
push_repo_rules(stack, seen, rules) ==
    IF rules = << >> THEN [stack |-> stack, seen |-> seen]
    ELSE LET rule == Head(rules)
             removed == rule.pattern \in seen
             kept == IF removed
                     THEN SelectSeq(stack, LAMBDA existing : existing.pattern # rule.pattern)
                     ELSE stack
             r == push_rule(kept, seen \ { rule.pattern }, rule)
         IN push_repo_rules(r.stack, r.seen, Tail(rules))

\* WorkspaceEnumerator::merge_ignore_stack
merge_ignore_stack(cfg, repo_rules) ==
    LET g == push_rules(<< >>, { }, cfg.global_ignores)
        sb == push_rules(g.stack, g.seen, cfg.sandbox_ignores)
    IN push_repo_rules(sb.stack, sb.seen, repo_rules).stack

MaxRules == 2       \* ignore rules in one layer

\* the patterns ".git" and "tmp", and the rule lists of a layer
IgnorePatterns == { "git", "tmp" }
RuleLists(sources) ==
    UNION { [1..n -> { IgnoreRule(src, p) : src \in sources, p \in IgnorePatterns }] :
            n \in 0..MaxRules }

\* WorkspaceEnumerator::new(config) and a registry snapshot of one record
InitScan ==
    /\ BufferIdle
    /\ StoreIdle
    /\ TransportIdle
    /\ WorkersIdle
    /\ planner_config = [target_chunk_bytes |-> 0, max_chunks_per_batch |-> 0]
    /\ ws_files = << >>
    /\ plans = << >>
    /\ first_plans = << >>
    /\ \E g \in RuleLists({ "Global" }), sb \in RuleLists({ "Sandbox" }) :
          enumerator_config = [global_ignores |-> g, sandbox_ignores |-> sb]
    /\ ignore_rules \in RuleLists({ "Git", "Custom" })
    /\ ignore_stack = None
    /\ pc = "scan"

\* enumerator.scan(&snapshot): the ignore_stack of the descriptor
Scan ==
    /\ pc = "scan"
    /\ ignore_stack = None
    /\ ignore_stack' = Some(merge_ignore_stack(enumerator_config, ignore_rules))
    /\ UNCHANGED << planner_config, ws_files, plans, first_plans, enumerator_config,
                    ignore_rules, pc >>
    /\ UNCHANGED bufferVars
    /\ UNCHANGED storeVars
    /\ UNCHANGED << transportVars, workerVars >>

\* the registry hands over a snapshot whose record has other ignore rules
Register ==
    /\ pc = "scan"
    /\ ignore_stack # None
    /\ \E rules \in RuleLists({ "Git", "Custom" }) :
         /\ rules # ignore_rules
         /\ ignore_rules' = rules
    /\ ignore_stack' = None
    /\ UNCHANGED << planner_config, ws_files, plans, first_plans, enumerator_config,
                    pc >>
    /\ UNCHANGED bufferVars
    /\ UNCHANGED storeVars
    /\ UNCHANGED << transportVars, workerVars >>

NextScan ==
    \/ Scan
    \/ Register

SpecScan == InitScan /\ [][NextScan]_vars

\* ------------------------------------------ ingestion-planning/src/lib.rs

\* str::cmp: byte-wise lexicographic order; -1, 0 or 1
RECURSIVE str_cmp(_, _)
str_cmp(a, b) ==
    IF a = << >> /\ b = << >> THEN 0
    ELSE IF a = << >> THEN -1
    ELSE IF b = << >> THEN 1
    ELSE IF Head(a) < Head(b) THEN -1
    ELSE IF Head(a) > Head(b) THEN 1
    ELSE str_cmp(Tail(a), Tail(b))

\* WorkspaceFile { path, content }
WorkspaceFile(path, content) == [path |-> path, content |-> content]

\* insertion of one file behind every file whose path is not greater
RECURSIVE insert_by_path(_, _)
insert_by_path(sorted, file) ==
    IF sorted = << >> THEN << file >>
    ELSE IF str_cmp(file.path, Head(sorted).path) < 0 THEN << file >> \o sorted
    ELSE << Head(sorted) >> \o insert_by_path(Tail(sorted), file)

\* files.sort_by(|a, b| a.path.cmp(&b.path)): a stable sort, files of equal
\* path keep the order they came in
RECURSIVE sort_by_path(_)
sort_by_path(fs) ==
    IF fs = << >> THEN << >>
    ELSE insert_by_path(sort_by_path(SubSeq(fs, 1, Len(fs) - 1)), fs[Len(fs)])

\* blake3::hash(slice).to_hex()
blake3_hex(slice) == Digits(Mix(13, slice), 32)

\* ChunkPlan; plan_id is "{repo_id}::{path}::{global_index}", chunker_config
\* "bytes={chunk_size};max={max_chunks_per_batch}" and source_span
\* "{path}:{offset}-{end}", kept as their parts
ChunkPlan(cfg, repo_id, path, global_index, offset, end, slice) ==
    [plan_id |-> << repo_id, path, global_index >>,
     repo_id |-> repo_id,
     chunker_config |-> << Max(cfg.target_chunk_bytes, 1), cfg.max_chunks_per_batch >>,
     source_span |-> << path, offset, end >>,
     hash |-> blake3_hex(slice),
     retry_policy |-> "default"]

\* the plans of one file from offset on, the first with index global_index
RECURSIVE file_plans(_, _, _, _, _, _)
file_plans(cfg, repo_id, file, chunk_size, offset, global_index) ==
    IF offset >= Len(file.content) THEN << >>
    ELSE LET end == IF offset + chunk_size < Len(file.content)
                    THEN offset + chunk_size ELSE Len(file.content)
         IN << ChunkPlan(cfg, repo_id, file.path, global_index, offset, end,
                         SubSeq(file.content, offset + 1, end)) >>
            \o file_plans(cfg, repo_id, file, chunk_size, end, global_index + 1)

\* the loop of plan over the sorted files
RECURSIVE walk_files(_, _, _, _, _)
walk_files(cfg, repo_id, fs, chunk_size, global_index) ==
    IF fs = << >> THEN << >>
    ELSE LET file == Head(fs)
             here == IF file.content = << >>
                     THEN << ChunkPlan(cfg, repo_id, file.path, global_index, 0, 0, << >>) >>
                     ELSE file_plans(cfg, repo_id, file, chunk_size, 0, global_index)
         IN here \o walk_files(cfg, repo_id, Tail(fs), chunk_size, global_index + Len(here))

\* plans.truncate(max_chunks_per_batch)
truncate(ps, n) == IF Len(ps) > n THEN SubSeq(ps, 1, n) ELSE ps

\* ChunkPlanner::plan for a workspace without archives under a config without
\* quota limits (check_archive_quotas returns Ok)
plan(cfg, repo_id, fs) ==
    LET chunk_size == Max(cfg.target_chunk_bytes, 1)
    IN truncate(walk_files(cfg, repo_id, sort_by_path(fs), chunk_size, 0),
                cfg.max_chunks_per_batch)

\* paths "a", "ab", "b" and contents "", "x", "xyz"
PlanPaths == { << 97 >>, << 97, 98 >>, << 98 >> }
PlanContents == { << >>, << 120 >>, << 120, 121, 122 >> }
PlanFiles == { WorkspaceFile(p, c) : p \in PlanPaths, c \in PlanContents }
MaxFiles == 3       \* files in a workspace

\* PlannerConfig::new(target_chunk_bytes, max_chunks_per_batch)
PlannerConfigs == [target_chunk_bytes : {0, 2}, max_chunks_per_batch : {2, 6}]

\* a workspace as the enumerator hands it over, and a planner
InitPlan ==
    /\ BufferIdle
    /\ StoreIdle
    /\ TransportIdle
    /\ WorkersIdle
    /\ planner_config \in PlannerConfigs
    /\ \E n \in 0..MaxFiles : ws_files \in [1..n -> PlanFiles]
    /\ plans = None
    /\ first_plans = None
    /\ EnumeratorIdle
    /\ pc = "plan"

\* planner.plan(&workspace)
Plan ==
    /\ pc = "plan"
    /\ plans = None
    /\ plans' = Some(plan(planner_config, << 114 >>, ws_files))
    /\ first_plans' = IF first_plans = None THEN plans' ELSE first_plans
    /\ UNCHANGED << planner_config, ws_files, pc, enumerator_config,
                    ignore_rules, ignore_stack >>
    /\ UNCHANGED bufferVars
    /\ UNCHANGED storeVars
    /\ UNCHANGED << transportVars, workerVars >>

\* the same files reach the planner in another order
Reorder ==
    /\ pc = "plan"
    /\ plans # None
    /\ \E i \in 1..Len(ws_files), j \in 1..Len(ws_files) :
         /\ i < j
         /\ ws_files' = [ws_files EXCEPT ![i] = ws_files[j], ![j] = ws_files[i]]
    /\ plans' = None
    /\ UNCHANGED << planner_config, first_plans, pc, enumerator_config,
                    ignore_rules, ignore_stack >>
    /\ UNCHANGED bufferVars
    /\ UNCHANGED storeVars
    /\ UNCHANGED << transportVars, workerVars >>

NextPlan ==
    \/ Plan
    \/ Reorder

SpecPlan == InitPlan /\ [][NextPlan]_vars

\* ------------------------------- runtime-transport-{http,stdio,uds}: tokens

\* config.token_secret of the adapter, and a secret it does not hold
TokenSecret == << 115 >>
OtherSecret == << 111 >>

\* '|' and ',' as the canonical string has them
Pipe == 124
Comma == 44

\* u64 to_string: the decimal digits
RECURSIVE Dec(_)
Dec(n) == IF n < 10 THEN << 48 + n >> ELSE Dec(n \div 10) \o << 48 + (n % 10) >>

\* capabilities.join(",")
RECURSIVE join(_)
join(caps) ==
    IF caps = << >> THEN << >>
    ELSE IF Len(caps) = 1 THEN caps[1]
    ELSE caps[1] \o << Comma >> \o join(Tail(caps))

\* the n-th value of Uuid::new_v4() as a string: a fixed-length text without
\* '|' or ','
Uuid(n) == << 117, 48 + n >>

\* TokenEnvelope; csrf_nonce is None in the STDIO and UDS envelopes
TokenEnvelope(token_id, principal, capabilities, expires_at, csrf_nonce) ==
    [token_id |-> token_id, principal |-> principal, capabilities |-> capabilities,
     expires_at |-> expires_at, csrf_nonce |-> csrf_nonce]

NoEnvelope == TokenEnvelope(<< >>, << >>, << >>, 0, None)

\* TokenEnvelope::canonical: "id|principal|caps|expires_at", and "|csrf_nonce"
\* behind it in the HTTP adapter
canonical(kind, envelope) ==
    envelope.token_id \o << Pipe >> \o envelope.principal \o << Pipe >>
        \o join(envelope.capabilities) \o << Pipe >> \o Dec(envelope.expires_at)
        \o (IF kind = "http" THEN << Pipe >> \o envelope.csrf_nonce[1] ELSE << >>)

\* TokenSigner::key: blake3::hash(secret), a hash without collisions: equal
\* keys come of equal secrets only
signer_key(secret) == [blake3 |-> secret]

\* TokenSigner::sign: the base64 text of the blake3 hash of the canonical
\* string under the key, a keyed hash without collisions: two signatures are
\* equal only if made of the same text under the same key
sign(secret, text) == [keyed_blake3 |-> << signer_key(secret), text >>]

\* a token string: the base64 text of the JSON of an envelope and a
\* signature, kept as the two parts; a text that is not base64; base64 of
\* bytes that are not such a JSON
TokenString(envelope, signature) ==
    [form |-> "signed", envelope |-> envelope, signature |-> signature]
NotBase64 == [form |-> "not base64", envelope |-> NoEnvelope, signature |-> sign(<< >>, << >>)]
NotJson == [form |-> "not json", envelope |-> NoEnvelope, signature |-> sign(<< >>, << >>)]

\* ttl of issue_session_token: Duration::from_secs(3600), and the
\* milliseconds of a second
TTL == 3600
Millis == 1000

\* duration_since(UNIX_EPOCH).as_secs() of an instant given in ms
as_secs(at) == at \div Millis

\* TokenSigner::issue at the instant `at`, the n-th token of this signer (two
\* fresh uuids in the HTTP adapter, one in the others)
issue(kind, secret, principal, capabilities, at, n) ==
    LET expires_at == at + TTL * Millis
        envelope == TokenEnvelope(Uuid(2 * n - 1), principal, capabilities,
                                  as_secs(expires_at),
                                  IF kind = "http" THEN Some(Uuid(2 * n)) ELSE None)
    IN [token |-> TokenString(envelope, sign(secret, canonical(kind, envelope))),
        csrf_nonce |-> envelope.csrf_nonce,
        expires_at |-> expires_at,
        token_id |-> envelope.token_id]

\* Result<TokenEnvelope, TransportError>
VerifyOk(envelope) == [kind |-> "Ok", message |-> "", envelope |-> envelope]
VerifyErr(message) == [kind |-> "Unauthorized", message |-> message, envelope |-> NoEnvelope]

\* TokenSigner::verify with `<` in place of `<=` in the expiry test
verify_expiry_inclusive(kind, secret, token, at) ==
    IF token.form = "not base64" THEN VerifyErr("invalid token encoding")
    ELSE IF token.form = "not json" THEN VerifyErr("invalid token payload")
    ELSE IF token.signature # sign(secret, canonical(kind, token.envelope))
    THEN VerifyErr("token signature mismatch")
    ELSE IF token.envelope.expires_at < as_secs(at) THEN VerifyErr("token expired")
    ELSE VerifyOk(token.envelope)

\* TokenSigner::verify at the instant `at`
verify(kind, secret, token, at) ==
    IF token.form = "not base64" THEN VerifyErr("invalid token encoding")
    ELSE IF token.form = "not json" THEN VerifyErr("invalid token payload")
    ELSE IF token.signature # sign(secret, canonical(kind, token.envelope))
    THEN VerifyErr("token signature mismatch")
    ELSE IF token.envelope.expires_at <= as_secs(at) THEN VerifyErr("token expired")
    ELSE VerifyOk(token.envelope)

\* ------------------------------------------------- serde_json::Value

\* a JSON value: null, a number, a string, n arrays nested in one another
\* ("[[..]]"), or an object with its members in key order
JV(t, n, str, members) == [t |-> t, n |-> n, s |-> str, m |-> members]
JNull == JV("null", 0, << >>, << >>)
JNum(n) == JV("num", n, << >>, << >>)
JStr(str) == JV("str", 0, str, << >>)
JNest(n) == JV("nest", n, << >>, << >>)
JObj(members) == JV("obj", 0, << >>, members)
Member(key, value) == [key |-> key, value |-> value]

\* the number of bytes of a string one of whose items, LongRun, stands for
\* RunLen bytes 'a'
LongRun == 256
RunLen == 49200
RECURSIVE StrLen(_)
StrLen(str) ==
    IF str = << >> THEN 0
    ELSE (IF Head(str) = LongRun THEN RunLen ELSE 1) + StrLen(Tail(str))

\* serde_json::to_vec(value).len()
RECURSIVE json_len(_)
json_len(v) ==
    IF v.t = "null" THEN 4
    ELSE IF v.t = "num" THEN Len(Dec(v.n))
    ELSE IF v.t = "str" THEN StrLen(v.s) + 2
    ELSE IF v.t = "nest" THEN 2 * v.n
    ELSE IF v.m = << >> THEN 2
    ELSE IF Len(v.m) = 1 THEN 2 + Len(v.m[1].key) + 3 + json_len(v.m[1].value)
    ELSE Len(v.m[1].key) + 3 + json_len(v.m[1].value) + 1 + json_len(JObj(Tail(v.m)))

\* the nesting depth of arrays and objects
RECURSIVE json_depth(_)
json_depth(v) ==
    IF v.t = "nest" THEN v.n
    ELSE IF v.t # "obj" THEN 0
    ELSE IF v.m = << >> THEN 1
    ELSE Max(1 + json_depth(v.m[1].value), json_depth(JObj(Tail(v.m))))

\* Value::get(key)
RECURSIVE value_get(_, _)
value_get(v, key) ==
    IF v.t # "obj" \/ v.m = << >> THEN None
    ELSE IF v.m[1].key = key THEN Some(v.m[1].value)
    ELSE value_get(JObj(Tail(v.m)), key)

\* .get(key).and_then(|v| v.as_str())
get_str(v, key) ==
    IF value_get(v, key) # None /\ value_get(v, key)[1].t = "str"
    THEN Some(value_get(v, key)[1].s)
    ELSE None

\* .get("payload").cloned().unwrap_or(Value::Null)
get_or_null(v, key) == IF value_get(v, key) = None THEN JNull ELSE value_get(v, key)[1]

\* serde_json::to_vec(value): the JSON text of the value
to_vec(v) == [text |-> "json", value |-> v]

\* the depth at which serde_json's parser gives up
RecursionLimit == 128

\* serde_json::from_slice(bytes)
from_slice(bytes) ==
    IF bytes.text = "json" /\ json_depth(bytes.value) < RecursionLimit
    THEN [ok |-> TRUE, value |-> bytes.value]
    ELSE [ok |-> FALSE, value |-> JNull]

\* the command "p", and the request bodies a client sends: a command, a
\* command with a payload, a command that is no string, no command, and a
\* command with a payload as deep as the parser's limit
Cmd == << 112 >>
Bodies ==
    { JObj(<< Member("command", JStr(Cmd)) >>),
      JObj(<< Member("command", JStr(Cmd)), Member("payload", JNum(7)) >>),
      JObj(<< Member("command", JNum(7)) >>),
      JObj(<< >>),
      JObj(<< Member("command", JStr(Cmd)), Member("payload", JNest(RecursionLimit)) >>) }

\* -------------------------------------- runtime-transport-stdio: FramingCodec

\* the lengths of a uuid's text and of the base64 text of a 32 byte hash
UuidLen == 36
SignatureLen == 43
\* the bytes of the JSON of a SignedToken around its values
SignedTokenJsonFrame == 105

\* the length of the JSON list of capabilities
RECURSIVE caps_json_len(_)
caps_json_len(caps) ==
    IF caps = << >> THEN 0
    ELSE StrLen(caps[1]) + 2 + (IF Len(caps) = 1 THEN 0 ELSE 1 + caps_json_len(Tail(caps)))

\* token.token.as_bytes().len(): URL_SAFE_NO_PAD text of the JSON of the
\* signed envelope; 8 bytes for the texts that are no such token
token_bytes_len(token) ==
    IF token.form # "signed" THEN 8
    ELSE LET n == SignedTokenJsonFrame + UuidLen + StrLen(token.envelope.principal)
                    + caps_json_len(token.envelope.capabilities)
                    + Len(Dec(token.envelope.expires_at)) + SignatureLen
         IN (4 * n + 2) \div 3

\* `len as u16`; `len as u32` leaves the lengths of this model as they are
as_u16(n) == n % 65536
as_u32(n) == n

\* FramingCodec::checksum: the first 16 bytes of the blake3 hash of the
\* frame in front of the checksum
checksum(payload_len, token_len, payload, token) ==
    [blake3_16 |-> << payload_len, token_len, payload, token >>]

\* StdioFrame: the two length fields, the payload and token bytes behind
\* them, the checksum, and the length of the whole
StdioFrame(payload_len, token_len, payload, token, sum, length) ==
    [payload_len |-> payload_len, token_len |-> token_len, payload |-> payload,
     token |-> token, checksum |-> sum, length |-> length]

\* Result<_, TransportError> of the codec
CodecOk(value) == [kind |-> "Ok", message |-> "", value |-> value]
CodecErr(kind, message) == [kind |-> kind, message |-> message, value |-> << >>]

\* FramingCodec::encode(json, token) at the instant `at`
encode(max_len, json, token, at) ==
    LET v == verify("stdio", TokenSecret, token, at)
        payload_bytes == to_vec(json)
        frame_len == 4 + 2 + json_len(json) + token_bytes_len(token) + 16
        payload_len == as_u32(json_len(json))
        token_len == as_u16(token_bytes_len(token))
    IN IF v.kind # "Ok" THEN CodecErr("Unauthorized", v.message)
       ELSE IF frame_len > max_len
       THEN CodecErr("Framing", "frame exceeds maximum length")
       ELSE CodecOk(StdioFrame(payload_len, token_len, payload_bytes, token,
                               checksum(payload_len, token_len, payload_bytes, token),
                               frame_len))

\* variant of decode_with_envelope without the test of the minimum size
decode_with_envelope_no_minimum(max_len, f, at) ==
    LET cursor_len == f.length - 4 - 2
        parsed == from_slice(f.payload)
        v == verify("stdio", TokenSecret, f.token, at)
    IN IF f.length > max_len THEN CodecErr("Framing", "frame exceeds maximum length")
       ELSE IF f.payload_len + f.token_len + 16 # cursor_len
       THEN CodecErr("Framing", "frame length mismatch")
       ELSE IF f.checksum # checksum(f.payload_len, f.token_len, f.payload, f.token)
       THEN CodecErr("Framing", "checksum mismatch")
       ELSE IF ~parsed.ok THEN CodecErr("Framing", "invalid json")
       ELSE IF v.kind # "Ok" THEN CodecErr("Unauthorized", v.message)
       ELSE CodecOk([payload |-> parsed.value, envelope |-> v.envelope,
                     raw_token |-> f.token])

\* FramingCodec::decode_with_envelope(frame) at the instant `at`; the value
\* is the payload and the envelope with its raw_token
decode_with_envelope(max_len, f, at) ==
    LET cursor_len == f.length - 4 - 2
        parsed == from_slice(f.payload)
        v == verify("stdio", TokenSecret, f.token, at)
    IN IF f.length < 4 + 2 + 16 THEN CodecErr("Framing", "frame too short")
       ELSE IF f.length > max_len THEN CodecErr("Framing", "frame exceeds maximum length")
       ELSE IF f.payload_len + f.token_len + 16 # cursor_len
       THEN CodecErr("Framing", "frame length mismatch")
       ELSE IF f.checksum # checksum(f.payload_len, f.token_len, f.payload, f.token)
       THEN CodecErr("Framing", "checksum mismatch")
       ELSE IF ~parsed.ok THEN CodecErr("Framing", "invalid json")
       ELSE IF v.kind # "Ok" THEN CodecErr("Unauthorized", v.message)
       ELSE CodecOk([payload |-> parsed.value, envelope |-> v.envelope,
                     raw_token |-> f.token])

\* FramingCodec::decode(frame): (payload, envelope.raw_token)
decode(max_len, f, at) ==
    Eval(decode_with_envelope(max_len, f, at),
         LAMBDA r : IF r.kind # "Ok" THEN r
                    ELSE CodecOk(<< r.value.payload, r.value.raw_token >>))

\* ----------------------------------------------------- runtime-router

\* RouterError { detail } of one of the four variants
RouterError(variant, detail) == [variant |-> variant, detail |-> detail]

\* RouterError::status_code
status_code(err) ==
    IF err.variant = "Unauthorized" THEN 401
    ELSE IF err.variant = "InvalidRequest" THEN 400
    ELSE IF err.variant = "NotFound" THEN 404
    ELSE 500

\* the texts in front of the detail in the Display of a RouterError:
\* "unauthorized: ", "invalid request: ", "not found: ", "internal error: "
DisplayPrefix(variant) ==
    IF variant = "Unauthorized" THEN << 117, 110, 97, 117, 116, 104, 111, 114, 105, 122, 101, 100, 58, 32 >>
    ELSE IF variant = "InvalidRequest" THEN << 105, 110, 118, 97, 108, 105, 100, 32, 114, 101, 113, 117, 101, 115, 116, 58, 32 >>
    ELSE IF variant = "NotFound" THEN << 110, 111, 116, 32, 102, 111, 117, 110, 100, 58, 32 >>
    ELSE << 105, 110, 116, 101, 114, 110, 97, 108, 32, 101, 114, 114, 111, 114, 58, 32 >>

\* a Display that leaves the variant's text out
to_string_detail_only(err) == err.detail

\* err.to_string()
to_string(err) == DisplayPrefix(err.variant) \o err.detail

RouterVariants == { "Unauthorized", "InvalidRequest", "NotFound", "Internal" }

\* details of router errors: "d", and a detail that reads like the Display
\* of another error
Details == { << 100 >>, << 110, 111, 116, 32, 102, 111, 117, 110, 100, 58, 32 >> \o << 100 >> }

\* Result<RouterResponse, RouterError> as the router returns it
RouterOk(status, payload) ==
    [ok |-> TRUE, status_code |-> status, payload |-> payload,
     err |-> RouterError("none", << >>)]
RouterErr(err) == [ok |-> FALSE, status_code |-> 0, payload |-> JNull, err |-> err]
NoReply == [ok |-> FALSE, status_code |-> 0, payload |-> JNull,
            err |-> RouterError("none", << >>)]

\* what the router answers to a call
RouterReplies ==
    { RouterOk(200, JNum(7)), RouterOk(300, JNull) }
    \cup { RouterErr(RouterError(v, << 100 >>)) : v \in RouterVariants }
    \cup { RouterErr(RouterError("Unauthorized", d)) : d \in Details }

\* RouterCall: the SessionContext and RouterCommand of a dispatch
RouterCall(envelope, peer, command, payload) ==
    [principal |-> envelope.principal, capabilities |-> envelope.capabilities,
     token_id |-> envelope.token_id, peer |-> peer, command |-> command,
     payload |-> payload]

\* whether text starts with prefix
starts_with(text, prefix) ==
    Len(text) >= Len(prefix) /\ SubSeq(text, 1, Len(prefix)) = prefix

\* the status code of the router error whose Display the text is; 0 if none
status_of_display(text) ==
    IF \E v \in RouterVariants : starts_with(text, DisplayPrefix(v))
    THEN status_code(RouterError(CHOOSE v \in RouterVariants :
                                    starts_with(text, DisplayPrefix(v)), << >>))
    ELSE 0

\* the outcome of a dispatch: the result, whether the router was called, and
\* the call it recorded
Outcome(kind, status, message, value, called, call) ==
    [kind |-> kind, status |-> status, message |-> message, value |-> value,
     called |-> called, call |-> call]
Rejected(kind, message) == Outcome(kind, 0, message, << >>, FALSE, << >>)

\* an allow-list check that lets every principal pass
is_allowed_any(allowed, principal) == TRUE

\* whether the principal is in config.allowed_principals
is_allowed(allowed, principal) ==
    \E i \in 1..Len(allowed) : allowed[i] = principal

\* --------------------------------------------- runtime-transport-http: dispatch

\* HttpRequest: the value of the authorization header (None if there is
\* none) as the text in front of the token and the token; the values of the
\* headers whose name is x-csrf-token in some spelling; the body
HttpRequest(authorization, csrf, body) ==
    [authorization |-> authorization, csrf |-> csrf, body |-> body]
Bearer(token) == Some([scheme |-> "Bearer ", token |-> token])
Basic(token) == Some([scheme |-> "Basic ", token |-> token])

\* HttpAdapter::header for x-csrf-token: the value some header of that name,
\* compared without case, has; which one, the map's iteration order decides
csrf_header(request) == IF request.csrf = { } THEN { None }
                        ELSE { Some(v) : v \in request.csrf }

\* HttpAdapter::dispatch(request) at the instant `at`, with the value csrf
\* that header() found and the reply the router gives if it is called
http_dispatch(allowed, csrf_required, request, csrf, reply, at) ==
    IF request.authorization = None
    THEN Rejected("Unauthorized", "missing authorization header")
    ELSE IF request.authorization[1].scheme # "Bearer "
    THEN Rejected("Unauthorized", "expected bearer token")
    ELSE Eval(verify("http", TokenSecret, request.authorization[1].token, at),
      LAMBDA v :
        IF v.kind # "Ok" THEN Rejected("Unauthorized", v.message)
        ELSE IF ~is_allowed(allowed, v.envelope.principal)
        THEN Rejected("Unauthorized", "principal is not permitted")
        ELSE IF csrf_required /\ csrf = None
        THEN Rejected("Csrf", "missing csrf token")
        ELSE IF csrf_required /\ csrf[1] # v.envelope.csrf_nonce[1]
        THEN Rejected("Csrf", "csrf token mismatch")
        ELSE IF get_str(request.body, "command") = None
        THEN Rejected("InvalidRequest", "command field missing")
        ELSE LET call == RouterCall(v.envelope, "http", get_str(request.body, "command")[1],
                                    get_or_null(request.body, "payload"))
             IN IF reply.ok
                THEN Outcome("Ok", reply.status_code, "", reply.payload, TRUE, call)
                ELSE Outcome("Router", 0, "", to_string(reply.err), TRUE, call))

\* ---------------------------------------------- runtime-transport-uds: dispatch

\* PeerCredentials { uid, pid, process_name }
PeerCredentials(uid, pid) == [uid |-> uid, pid |-> pid]

\* UdsRequest { peer, token, payload }
UdsRequest(peer, token, payload) == [peer |-> peer, token |-> token, payload |-> payload]

\* a negotiation that accepts every uid
negotiate_peer_any(allowed, negotiated, peer) ==
    [kind |-> "Ok", message |-> "", negotiated |-> negotiated \cup { peer.uid }]

\* UdsAdapter::negotiate_peer(peer): the result and the negotiated set after it
negotiate_peer(allowed, negotiated, peer) ==
    IF peer.uid \notin allowed
    THEN [kind |-> "Unauthorized", message |-> "uid not permitted",
          negotiated |-> negotiated]
    ELSE [kind |-> "Ok", message |-> "", negotiated |-> negotiated \cup { peer.uid }]

\* a lookup that finds every uid negotiated
is_negotiated_any(negotiated, uid) == TRUE

\* negotiated_uids.lock().unwrap().contains(&request.peer.uid)
is_negotiated(negotiated, uid) == uid \in negotiated

\* UdsAdapter::dispatch(request) at the instant `at`, with the reply the
\* router gives if it is called; Ok carries the response's payload only
uds_dispatch(allowed, negotiated, request, reply, at) ==
    IF ~is_negotiated(negotiated, request.peer.uid)
    THEN Rejected("Unauthorized", "uid not negotiated")
    ELSE Eval(verify("uds", TokenSecret, request.token, at),
      LAMBDA v :
        IF v.kind # "Ok" THEN Rejected("Unauthorized", v.message)
        ELSE IF ~is_allowed(allowed, v.envelope.principal)
        THEN Rejected("Unauthorized", "principal is not permitted")
        ELSE IF get_str(request.payload, "command") = None
        THEN Rejected("Unauthorized", "command missing")
        ELSE LET call == RouterCall(v.envelope, "uds", get_str(request.payload, "command")[1],
                                    get_or_null(request.payload, "payload"))
             IN IF reply.ok
                THEN Outcome("Ok", 0, "", reply.payload, TRUE, call)
                ELSE Outcome("Router", 0, "", reply.err, TRUE, call))

\* ------------------------------------------- runtime-transport-stdio: dispatch

\* variant of the response body that takes status code 200 alone for "ok"
response_body_200_only(reply) ==
    JObj(<< Member("payload", reply.payload),
            Member("status", JStr(IF reply.status_code = 200
                                  THEN << 111, 107 >> ELSE << 101, 114, 114, 111, 114 >>)) >>)

\* json!({"status": status, "payload": response.payload}); "ok" for a status
\* code in 200..=299, "error" otherwise
response_body(reply) ==
    JObj(<< Member("payload", reply.payload),
            Member("status", JStr(IF reply.status_code >= 200 /\ reply.status_code <= 299
                                  THEN << 111, 107 >> ELSE << 101, 114, 114, 111, 114 >>)) >>)

\* StdioAdapter::dispatch_frame(frame) at the instant `at`, with the reply
\* the router gives if it is called
dispatch_frame(allowed, max_len, f, reply, at) ==
    Eval(decode_with_envelope(max_len, f, at),
      LAMBDA d :
        IF d.kind # "Ok" THEN Rejected(d.kind, d.message)
        ELSE IF get_str(d.value.payload, "command") = None
        THEN Rejected("Framing", "command missing")
        ELSE IF ~is_allowed(allowed, d.value.envelope.principal)
        THEN Rejected("Unauthorized", "principal is not permitted")
        ELSE LET call == RouterCall(d.value.envelope, "stdio",
                                    get_str(d.value.payload, "command")[1],
                                    get_or_null(d.value.payload, "payload"))
             IN IF ~reply.ok THEN Outcome("Router", 0, "", reply.err, TRUE, call)
                ELSE Eval(encode(max_len, response_body(reply), d.value.raw_token, at),
                       LAMBDA e : Outcome(e.kind, reply.status_code, e.message, e.value,
                                          TRUE, call)))

\* ------------------------------ runtime-transport-{http,stdio,uds}: adapters

\* principals "a" and "b", the capabilities ["r", "w"] that clients of the
\* HTTP and UDS adapters ask for, and those the STDIO adapter issues: ["stdio"]
Alice == << 97 >>
Bob == << 98 >>
Principals == { Alice, Bob }
CapabilityLists == { << << 114 >>, << 119 >> >> }
StdioCapabilities == << << 115, 116, 100, 105, 111 >> >>

\* the principal of RunLen bytes
LongName == << LongRun >>

\* the configs the adapters are bound with: allowed_principals with
\* require_csrf (HTTP), max_frame_length (STDIO) or allowed_uids (UDS)
HttpConfigs ==
    { [allowed_principals |-> << Alice >>, require_csrf |-> TRUE],
      [allowed_principals |-> << Alice >>, require_csrf |-> FALSE],
      [allowed_principals |-> << Alice, Bob >>, require_csrf |-> TRUE] }
StdioConfigs ==
    { [allowed_principals |-> << Alice >>, max_frame_length |-> 64],
      [allowed_principals |-> << Alice, Bob >>, max_frame_length |-> 4096],
      [allowed_principals |-> << Alice, LongName >>, max_frame_length |-> 200000] }
UdsConfigs ==
    { [allowed_principals |-> << Alice >>, allowed_uids |-> { 1 }],
      [allowed_principals |-> << Alice, Bob >>, allowed_uids |-> { 1, 2 }] }

\* the instants at which calls are made, in ms: around the issue of a token
\* and around the second that is TTL after it
WallTimes == { 500, TTL * Millis - 1, TTL * Millis, TTL * Millis + 400 }

MaxIssued == 1      \* tokens one adapter issues
MaxCalls == 1       \* calls the router records

\* what a client can make of an issued token without the secret: the token,
\* its envelope signed under another secret, and its envelope with another
\* principal, a later expiry, or the capabilities regrouped into one string
\* that holds the separator, each under the signature it came with
TokenVariants(kind, token) ==
    { token,
      TokenString(token.envelope,
                  sign(OtherSecret, canonical(kind, token.envelope))),
      TokenString([token.envelope EXCEPT !.expires_at = @ + 1], token.signature),
      TokenString([token.envelope EXCEPT !.capabilities = << join(@) >>],
                  token.signature) }
    \cup { TokenString([token.envelope EXCEPT !.principal = p], token.signature) :
             p \in Principals }

\* the token strings a client may present
ClientTokens ==
    { NotBase64, NotJson } \cup UNION { TokenVariants(pc, i.token) : i \in issued }

\* the outcome of an adapter call
Tres(op, kind, status, message, request, value) ==
    [op |-> op, kind |-> kind, status |-> status, message |-> message,
     request |-> request, value |-> value]

\* HttpAdapter::bind, StdioAdapter::bind or UdsAdapter::bind with a config
\* that validates
InitTransport ==
    /\ BufferIdle
    /\ StoreIdle
    /\ PlannerIdle
    /\ WorkersIdle
    /\ \/ /\ pc = "http"
          /\ \E c \in HttpConfigs : /\ allowed_principals = c.allowed_principals
                                    /\ require_csrf = c.require_csrf
          /\ allowed_uids = { }
          /\ max_frame_length = 0
       \/ /\ pc = "stdio"
          /\ \E c \in StdioConfigs : /\ allowed_principals = c.allowed_principals
                                     /\ max_frame_length = c.max_frame_length
          /\ require_csrf = FALSE
          /\ allowed_uids = { }
       \/ /\ pc = "uds"
          /\ \E c \in UdsConfigs : /\ allowed_principals = c.allowed_principals
                                   /\ allowed_uids = c.allowed_uids
          /\ require_csrf = FALSE
          /\ max_frame_length = 0
    /\ wall = 500
    /\ negotiated_uids = { }
    /\ calls = << >>
    /\ issued = { }
    /\ frame = << >>
    /\ tres = NoTres

\* time passes between calls
TransportTick ==
    /\ pc \in { "http", "stdio", "uds" }
    /\ \E t \in WallTimes : t > wall /\ wall' = t
    /\ tres' = NoTres
    /\ UNCHANGED << allowed_principals, require_csrf, allowed_uids, negotiated_uids,
                    max_frame_length, calls, issued, frame, pc >>
    /\ UNCHANGED bufferVars
    /\ UNCHANGED storeVars
    /\ UNCHANGED << plannerVars, workerVars >>

\* the allow-list check and signer.issue of the three issue_session_token
IssueSessionToken(kind, principal, capabilities) ==
    /\ pc = kind
    /\ Cardinality(issued) < MaxIssued
    /\ IF \E i \in 1..Len(allowed_principals) : allowed_principals[i] = principal
       THEN \E token \in { issue(kind, TokenSecret, principal, capabilities, wall,
                                  Cardinality(issued) + 1) } :
               /\ issued' = issued \cup { token }
               /\ tres' = Tres("issue", "Ok", 0, "", principal, token)
       ELSE /\ issued' = issued
            /\ tres' = Tres("issue", "Unauthorized", 0, "principal is not permitted",
                            principal, << >>)
    /\ UNCHANGED << wall, allowed_principals, require_csrf, allowed_uids,
                    negotiated_uids, max_frame_length, calls, frame, pc >>
    /\ UNCHANGED bufferVars
    /\ UNCHANGED storeVars
    /\ UNCHANGED << plannerVars, workerVars >>

\* HttpAdapter::issue_session_token(principal, capabilities)
HttpIssueSessionToken ==
    \E principal \in Principals, capabilities \in CapabilityLists :
        IssueSessionToken("http", principal, capabilities)

\* StdioAdapter::issue_session_token(principal)
StdioIssueSessionToken ==
    \E principal \in Principals \cup { LongName } :
        IssueSessionToken("stdio", principal, StdioCapabilities)

\* UdsAdapter::issue_session_token(principal, capabilities)
UdsIssueSessionToken ==
    \E principal \in Principals, capabilities \in CapabilityLists :
        IssueSessionToken("uds", principal, capabilities)

\* signer.verify(token) of the adapter's signer
Verify ==
    /\ pc \in { "http", "stdio", "uds" }
    /\ \E token \in ClientTokens :
         \E r \in { verify(pc, TokenSecret, token, wall) } :
            tres' = Tres("verify", r.kind, 0, r.message, token, r.envelope)
    /\ UNCHANGED << wall, allowed_principals, require_csrf, allowed_uids,
                    negotiated_uids, max_frame_length, calls, issued, frame, pc >>
    /\ UNCHANGED bufferVars
    /\ UNCHANGED storeVars
    /\ UNCHANGED << plannerVars, workerVars >>

\* codec.encode(json, token) by a client of the STDIO adapter, which keeps
\* the frame
StdioEncode ==
    /\ pc = "stdio"
    /\ \E json \in Bodies, token \in ClientTokens :
         \E r \in { encode(max_frame_length, json, token, wall) } :
            /\ tres' = Tres("encode", r.kind, 0, r.message,
                            [json |-> json, token |-> token], r.value)
            /\ frame' = IF r.kind = "Ok"
                        THEN Some([frame |-> r.value, json |-> json, token |-> token])
                        ELSE frame
    /\ UNCHANGED << wall, allowed_principals, require_csrf, allowed_uids,
                    negotiated_uids, max_frame_length, calls, issued, pc >>
    /\ UNCHANGED bufferVars
    /\ UNCHANGED storeVars
    /\ UNCHANGED << plannerVars, workerVars >>

\* codec.decode(frame) of the frame the client holds
StdioDecode ==
    /\ pc = "stdio"
    /\ frame # None
    /\ \E r \in { decode(max_frame_length, frame[1].frame, wall) } :
         tres' = Tres("decode", r.kind, 0, r.message, frame[1], r.value)
    /\ UNCHANGED << wall, allowed_principals, require_csrf, allowed_uids,
                    negotiated_uids, max_frame_length, calls, issued, frame, pc >>
    /\ UNCHANGED bufferVars
    /\ UNCHANGED storeVars
    /\ UNCHANGED << plannerVars, workerVars >>

\* bytes that are no JSON text: the empty payload
NoJson == [text |-> "", value |-> JNull]

\* a frame laid out as encode lays it out, its checksum computed over the
\* bytes in front of it, for a payload and a token of the client's choice
Forged(payload_len, payload, token) ==
    StdioFrame(as_u32(payload_len), as_u16(token_bytes_len(token)), payload, token,
               checksum(as_u32(payload_len), as_u16(token_bytes_len(token)),
                        payload, token),
               4 + 2 + payload_len + token_bytes_len(token) + 16)

\* frames a client writes by hand: the four bytes of rejects_bad_checksum, 21
\* bytes, 22 bytes whose header announces a payload, and well-formed frames
\* of 30 and 31 bytes around a token text that is no token
RawFrames ==
    { StdioFrame(66051, 0, NoJson, NotBase64, checksum(0, 0, NoJson, NotJson), 4),
      StdioFrame(0, 0, NoJson, NotBase64, checksum(0, 0, NoJson, NotJson), 21),
      StdioFrame(1, 0, NoJson, NotBase64, checksum(0, 0, NoJson, NotJson), 22),
      Forged(0, NoJson, NotJson),
      Forged(json_len(JNum(7)), to_vec(JNum(7)), NotBase64) }

\* codec.decode(frame) of a frame the client wrote by hand
StdioDecodeRaw ==
    /\ pc = "stdio"
    /\ \E f \in RawFrames :
         \E r \in { decode(max_frame_length, f, wall) } :
            tres' = Tres("decode_raw", r.kind, 0, r.message,
                         [frame |-> f, json |-> f.payload, token |-> f.token], r.value)
    /\ UNCHANGED << wall, allowed_principals, require_csrf, allowed_uids,
                    negotiated_uids, max_frame_length, calls, issued, frame, pc >>
    /\ UNCHANGED bufferVars
    /\ UNCHANGED storeVars
    /\ UNCHANGED << plannerVars, workerVars >>

\* config.allowed_principals loses its last principal after tokens were
\* issued (rejects_revoked_principal_on_dispatch clears the list)
Revoke ==
    /\ pc \in { "http", "stdio", "uds" }
    /\ issued # { }
    /\ allowed_principals # << >>
    /\ allowed_principals' = SubSeq(allowed_principals, 1, Len(allowed_principals) - 1)
    /\ tres' = NoTres
    /\ UNCHANGED << wall, require_csrf, allowed_uids, negotiated_uids,
                    max_frame_length, calls, issued, frame, pc >>
    /\ UNCHANGED bufferVars
    /\ UNCHANGED storeVars
    /\ UNCHANGED << plannerVars, workerVars >>

\* a value of x-csrf-token that is no nonce
BadNonce == << 120 >>

\* the body with the command "p" and no payload
BodyCmd == JObj(<< Member("command", JStr(Cmd)) >>)

\* the requests a client of the HTTP adapter sends: the request the tests
\* send for an issued token, and that request with another token, without
\* the authorization header or without "Bearer ", with no, a wrong or a
\* second x-csrf-token header, with another body, and with several of these
HttpRequests ==
    { HttpRequest(None, { }, BodyCmd),
      HttpRequest(Bearer(NotBase64), { }, JObj(<< >>)) }
    \cup UNION {
        { HttpRequest(Bearer(t), { i.csrf_nonce[1] }, BodyCmd) : t \in ClientTokens }
        \cup { HttpRequest(Basic(i.token), { i.csrf_nonce[1] }, BodyCmd) }
        \cup { HttpRequest(Bearer(i.token), c, BodyCmd) :
                 c \in { { }, { BadNonce }, { i.csrf_nonce[1], BadNonce } } }
        \cup { HttpRequest(Bearer(i.token), { i.csrf_nonce[1] }, body) : body \in Bodies }
        \cup { HttpRequest(Bearer(i.token), { }, JObj(<< >>)),
               HttpRequest(Bearer(NotJson), { }, JObj(<< >>)) }
        : i \in issued }

\* HttpAdapter::dispatch(request)
HttpDispatch ==
    /\ pc = "http"
    /\ \E request \in HttpRequests :
       \E csrf \in csrf_header(request) :
       \E checked \in { http_dispatch(allowed_principals, require_csrf, request, csrf,
                                      NoReply, wall) } :
       \E reply \in IF checked.called THEN RouterReplies ELSE { NoReply } :
         \E o \in { IF checked.called
                    THEN http_dispatch(allowed_principals, require_csrf, request, csrf,
                                       reply, wall)
                    ELSE checked } :
            /\ o.called => Len(calls) < MaxCalls
            /\ calls' = IF o.called THEN Append(calls, o.call) ELSE calls
            /\ tres' = Tres("dispatch", o.kind, o.status, o.message,
                            [request |-> request, csrf |-> csrf, reply |-> reply],
                            o.value)
    /\ UNCHANGED << wall, allowed_principals, require_csrf, allowed_uids,
                    negotiated_uids, max_frame_length, issued, frame, pc >>
    /\ UNCHANGED bufferVars
    /\ UNCHANGED storeVars
    /\ UNCHANGED << plannerVars, workerVars >>

\* the uids of the peers that connect, and their pids
Uids == { 1, 2, 3 }
Pids == { 10, 11 }

\* UdsAdapter::negotiate_peer(peer)
UdsNegotiatePeer ==
    /\ pc = "uds"
    /\ \E uid \in Uids, pid \in Pids :
         \E r \in { negotiate_peer(allowed_uids, negotiated_uids, PeerCredentials(uid, pid)) } :
            /\ negotiated_uids' = r.negotiated
            /\ tres' = Tres("negotiate", r.kind, 0, r.message, PeerCredentials(uid, pid), << >>)
    /\ UNCHANGED << wall, allowed_principals, require_csrf, allowed_uids,
                    max_frame_length, calls, issued, frame, pc >>
    /\ UNCHANGED bufferVars
    /\ UNCHANGED storeVars
    /\ UNCHANGED << plannerVars, workerVars >>

\* the requests the peers send: an issued token and a command from each uid,
\* and from uid 1 the other tokens and the other bodies
UdsRequests ==
    { UdsRequest(PeerCredentials(uid, 10), NotBase64, BodyCmd) : uid \in { 1, 3 } }
    \cup UNION {
        { UdsRequest(PeerCredentials(uid, 10), i.token, BodyCmd) : uid \in Uids }
        \cup { UdsRequest(PeerCredentials(1, 10), t, BodyCmd) : t \in ClientTokens }
        \cup { UdsRequest(PeerCredentials(1, 10), i.token, body) : body \in Bodies }
        : i \in issued }

\* UdsAdapter::dispatch(request)
UdsDispatch ==
    /\ pc = "uds"
    /\ \E request \in UdsRequests :
       \E checked \in { uds_dispatch(allowed_principals, negotiated_uids, request,
                                     NoReply, wall) } :
       \E reply \in IF checked.called THEN RouterReplies ELSE { NoReply } :
         \E o \in { IF checked.called
                    THEN uds_dispatch(allowed_principals, negotiated_uids, request,
                                      reply, wall)
                    ELSE checked } :
            /\ o.called => Len(calls) < MaxCalls
            /\ calls' = IF o.called THEN Append(calls, o.call) ELSE calls
            /\ tres' = Tres("dispatch", o.kind, o.status, o.message,
                            [request |-> request, reply |-> reply], o.value)
    /\ UNCHANGED << wall, allowed_principals, require_csrf, allowed_uids,
                    negotiated_uids, max_frame_length, issued, frame, pc >>
    /\ UNCHANGED bufferVars
    /\ UNCHANGED storeVars
    /\ UNCHANGED << plannerVars, workerVars >>

\* router responses with the status codes around the 2xx range
StatusReplies == { RouterOk(c, JNum(7)) : c \in { 199, 204, 299, 404 } }

\* StdioAdapter::dispatch_frame(frame) of the frame the client holds
StdioDispatchFrame ==
    /\ pc = "stdio"
    /\ frame # None
    /\ \E checked \in { dispatch_frame(allowed_principals, max_frame_length,
                                       frame[1].frame, NoReply, wall) } :
       \E reply \in IF checked.called THEN RouterReplies \cup StatusReplies
                     ELSE { NoReply } :
         \E o \in { IF checked.called
                    THEN dispatch_frame(allowed_principals, max_frame_length,
                                        frame[1].frame, reply, wall)
                    ELSE checked } :
            /\ o.called => Len(calls) < MaxCalls
            /\ calls' = IF o.called THEN Append(calls, o.call) ELSE calls
            /\ tres' = Tres("dispatch", o.kind, o.status, o.message,
                            [request |-> frame[1], reply |-> reply], o.value)
    /\ UNCHANGED << wall, allowed_principals, require_csrf, allowed_uids,
                    negotiated_uids, max_frame_length, issued, frame, pc >>
    /\ UNCHANGED bufferVars
    /\ UNCHANGED storeVars
    /\ UNCHANGED << plannerVars, workerVars >>

NextTransport ==
    \/ TransportTick
    \/ HttpIssueSessionToken
    \/ StdioIssueSessionToken
    \/ UdsIssueSessionToken
    \/ Verify
    \/ StdioEncode
    \/ StdioDecode
    \/ StdioDecodeRaw
    \/ Revoke
    \/ HttpDispatch
    \/ UdsNegotiatePeer
    \/ UdsDispatch
    \/ StdioDispatchFrame

SpecTransport == InitTransport /\ [][NextTransport]_vars

\* ----------------------------------------------------------------- claims

\* the envelopes of guard whose age at time t is at most max_age, in order
Fresh(guard, t) == SelectSeq(guard, LAMBDA e : t - e.inserted_at <= max_age)

\* the entries of a sequence of envelopes, each with status st
EntriesAs(envs, st) == [i \in 1..Len(envs) |-> [envs[i].entry EXCEPT !.status = st]]

\* the (sequence, inserted_at) pairs of a sequence of envelopes
Stamps(envs) == [i \in 1..Len(envs) |-> << envs[i].entry.sequence, envs[i].inserted_at >>]

\* the last n elements of s
LastN(s, n) == SubSeq(s, Len(s) - (IF n < Len(s) THEN n ELSE Len(s)) + 1, Len(s))

\* C1 (as stated): over the emit and flush_offline calls of one emitter (on
\* a buffer no ledger was loaded into), the sequence numbers of the entries
\* the queue received, in the order of the sends, are strictly increasing.
C1_QueueStrictlyIncreasing ==
    pushes = 0 =>
        \A i, j \in 1..Len(queue) : i < j => queue[i].sequence < queue[j].sequence

\* C1 (amended): an entry the queue accepts from an emit call carries a
\* sequence number strictly greater than that of every entry the queue
\* accepted before it, and emit changes nothing else of the queue's history.
C1_EmitAboveAccepted ==
    [][(last'.op = "emit" /\ last'.ret = "Ok") =>
          /\ Len(queue') = Len(queue) + 1
          /\ SubSeq(queue', 1, Len(queue)) = queue
          /\ \A i \in 1..Len(queue) :
                queue[i].sequence < queue'[Len(queue')].sequence]_vars

\* emits interleaved with a queue-offline failure: an accepted emit after
\* earlier accepted entries, while a buffered entry waits in the buffer
C1_Witness ==
    /\ last.op = "emit" /\ last.ret = "Ok"
    /\ Len(queue) >= 2
    /\ inner # << >>

\* C2: a newly constructed emitter has
\* next_sequence = max(buffer.max_sequence() + 1, config.sequence_start),
\* and config.sequence_start when the buffer never saw an entry.
C2_NextSequenceAtConstruction ==
    last.op = "new" =>
        next_sequence =
            IF max_sequence_seen = None THEN config.sequence_start
            ELSE Max(max_sequence_seen[1] + 1, config.sequence_start)

\* C3: when the queue accepts every send, flush_offline sends every
\* non-expired buffered entry in buffer order with status "emitted", returns
\* Ok and leaves the buffer empty; and when the whole ledger (sequences
\* below sequence_start) is still buffered and the emitter's one emit
\* failed, the last entry the flush sends carries sequence_start.
C3_FlushSendsAllInOrder ==
    [][(last'.op = "flush" /\ last'.accepts = Len(Fresh(inner, now))) =>
          LET F == Fresh(inner, now)
          IN /\ last'.ret = "Ok"
             /\ inner' = << >>
             /\ queue' = queue \o EntriesAs(F, "emitted")
             /\ ( /\ emits = 1 /\ queue = << >>
                  /\ Len(F) = pushes + 1
                  /\ F[Len(F)].entry.repo_id = "diff"
                  /\ \A i \in 1..(Len(F) - 1) :
                        F[i].entry.sequence < config.sequence_start )
                => queue'[Len(queue')].sequence = config.sequence_start]_vars

\* C4 (as stated): when a send fails in the middle of flush_offline the queue
\* has accepted exactly the drained envelopes before the failing one, the
\* failing one and every later one are back in the buffer in their order
\* with status "buffered", and the call returns QueueOffline.
C4_MidFlushRequeuesAll ==
    [][(last'.op = "flush" /\ last'.accepts < Len(Fresh(inner, now))) =>
          LET F == Fresh(inner, now)
              k == last'.accepts
          IN /\ last'.ret = "QueueOffline"
             /\ queue' = queue \o EntriesAs(SubSeq(F, 1, k), "emitted")
             /\ EntriesAs(inner', "buffered") = EntriesAs(SubSeq(F, k + 1, Len(F)), "buffered")
             /\ \A i \in 1..Len(inner') : inner'[i].entry.status = "buffered"]_vars

\* C4 (amended): as C4, but the envelopes put back are the failing one and
\* the later ones whose age is still at most max_age when they are
\* requeued; one that expired while the sends were in flight is purged.
C4_MidFlushRequeuesUnexpired ==
    [][(last'.op = "flush" /\ last'.accepts < Len(Fresh(inner, now))) =>
          LET F == Fresh(inner, now)
              k == last'.accepts
          IN /\ last'.ret = "QueueOffline"
             /\ queue' = queue \o EntriesAs(SubSeq(F, 1, k), "emitted")
             /\ EntriesAs(inner', "buffered")
                  = EntriesAs(Fresh(SubSeq(F, k + 1, Len(F)), now'), "buffered")
             /\ \A i \in 1..Len(inner') : inner'[i].entry.status = "buffered"]_vars

\* a flush that failed after the queue accepted a prefix, with the rest
\* back in the buffer
C4_Witness ==
    /\ last.op = "flush" /\ last.ret = "QueueOffline"
    /\ last.accepts >= 1
    /\ inner # << >>
    /\ queue # << >>

\* C5 (as stated): after a flush_offline that fails, every drained envelope
\* the queue did not accept is in the buffer with its original inserted_at.
C5_FailedFlushKeepsAll ==
    [][(last'.op = "flush" /\ last'.ret # "Ok") =>
          LET F == Fresh(inner, now)
          IN Stamps(inner') = Stamps(SubSeq(F, last'.accepts + 1, Len(F)))]_vars

\* C5 (amended): after a flush_offline that fails, every drained envelope
\* the queue did not accept and whose age is still at most max_age when it
\* is requeued is in the buffer with its original inserted_at; the buffer
\* holds nothing else, and no age is reset.
C5_FailedFlushKeepsUnexpired ==
    [][(last'.op = "flush" /\ last'.ret # "Ok") =>
          LET F == Fresh(inner, now)
          IN Stamps(inner') = Stamps(Fresh(SubSeq(F, last'.accepts + 1, Len(F)), now'))]_vars

\* a failed flush left an envelope in the buffer that is older than the call
C5_Witness ==
    /\ last.op = "flush" /\ last.ret = "QueueOffline"
    /\ \E i \in 1..Len(inner) : inner[i].inserted_at < now

\* C6 (as stated): when the queue rejects the send inside emit, emit returns
\* QueueOffline, the queue's history is unchanged and the buffer is its
\* pre-call contents plus one appended entry with the assigned sequence and
\* status "buffered" (stated for a buffer with max_entries > 0).
C6_FailedEmitAppendsOne ==
    [][(last'.op = "emit" /\ last'.accepts = 0 /\ max_entries > 0) =>
          /\ last'.ret = "QueueOffline"
          /\ queue' = queue
          /\ Len(inner') = Len(inner) + 1
          /\ SubSeq(inner', 1, Len(inner)) = inner
          /\ inner'[Len(inner')].entry.sequence = next_sequence
          /\ inner'[Len(inner')].entry.status = "buffered"]_vars

\* C6 (amended): when the queue rejects the send inside emit, the queue's
\* history is unchanged; with max_entries > 0 emit returns QueueOffline and
\* the buffer holds its pre-call envelopes that have not expired, then one
\* appended entry with the assigned sequence and status "buffered", cut from
\* the front to the newest max_entries; with max_entries = 0 emit returns a
\* Buffer error and the buffer is unchanged.
C6_FailedEmitAppendsWithinBounds ==
    [][(last'.op = "emit" /\ last'.accepts = 0) =>
          /\ queue' = queue
          /\ IF max_entries = 0
             THEN last'.ret = "Buffer" /\ inner' = inner
             ELSE /\ last'.ret = "QueueOffline"
                  /\ inner' # << >>
                  /\ inner'[Len(inner')].entry.sequence = next_sequence
                  /\ inner'[Len(inner')].entry.status = "buffered"
                  /\ inner'[Len(inner')].inserted_at = now
                  /\ SubSeq(inner', 1, Len(inner') - 1)
                       = LastN(Fresh(inner, now), max_entries - 1)]_vars

\* a rejected emit appended its entry behind an entry already buffered
C6_Witness ==
    /\ last.op = "emit" /\ last.ret = "QueueOffline"
    /\ Len(inner) >= 2
    /\ inner[Len(inner)].entry.repo_id = "diff"

C8_DelayedMsIsElapsed ==
    pc = "running" =>
        \A diff \in Diffs :
            build_entry(config, diff, next_sequence).delayed_ms
                = Max(0, now - diff.applied_at)

\* C9: drain_ready returns exactly the held envelopes whose age is at most
\* max_age, in buffer order, and leaves the buffer empty.
C9_DrainReturnsFresh ==
    [][(last'.op = "drain") =>
          /\ held' = Fresh(inner, now)
          /\ inner' = << >>]_vars

\* a drain returned two envelopes of different ages, in push order
C9_Witness ==
    /\ last.op = "drain"
    /\ Len(held) >= 2
    /\ held[1].inserted_at < held[2].inserted_at
    /\ inner = << >>

\* C10: requeue keeps inserted_at: every envelope in the buffer or held by
\* the caller carries the time of its first push, and drain_ready returns
\* exactly the envelopes whose first push is at most max_age ago.
C10_RequeueKeepsAge ==
    [][ /\ \A i \in 1..Len(inner') : inner'[i].inserted_at = inner'[i].born
        /\ \A i \in 1..Len(held') : held'[i].inserted_at = held'[i].born
        /\ (last'.op = "drain") =>
              held' = SelectSeq(inner, LAMBDA e : now - e.born <= max_age)]_vars

\* a requeue put back an envelope first pushed earlier, with that time
C10_Witness ==
    /\ last.op = "requeue" /\ last.ret = "Ok"
    /\ inner # << >>
    /\ inner[Len(inner)].inserted_at < now

\* C11: after every push or requeue on a buffer with max_entries > 0 the
\* buffer holds at most max_entries envelopes, and they are the newest ones
\* (the back of the FIFO) of the unexpired envelopes, in order: what the
\* capacity loop drops comes off the front.
C11_CapacityDropsOldest ==
    [][(last'.op \in {"push", "requeue"} /\ max_entries > 0) =>
          /\ last'.ret = "Ok"
          /\ Len(inner') <= max_entries
          /\ \E env \in IF last'.op = "requeue" THEN {held[last'.accepts]}
                        ELSE {ReplayEnvelope(LedgerEntry(s), now, now) : s \in 1..MaxSeq} :
                LET kept == Fresh(Append(inner, env), now)
                IN /\ inner' = LastN(kept, max_entries)
                   /\ last'.evicted = Len(kept) - Len(inner')]_vars

\* a push into a full buffer dropped the oldest envelope and kept the rest
C11_Witness ==
    /\ last.op = "push" /\ last.ret = "Ok"
    /\ last.evicted >= 1
    /\ max_entries >= 2
    /\ Len(inner) = max_entries

\* C12: max_sequence() never decreases and is the largest sequence a push or
\* requeue has put into the buffer, whatever was evicted, purged or drained
\* since; it is None only while no push or requeue has succeeded.
C12_MaxSequenceIsLargestSeen ==
    [][ /\ max_sequence_seen' = IF pushed_max' = 0 THEN None ELSE Some(pushed_max')
        /\ max_sequence_seen # None =>
              /\ max_sequence_seen' # None
              /\ max_sequence_seen'[1] >= max_sequence_seen[1] ]_vars

\* max_sequence() still reports a sequence that no envelope in the buffer or
\* held by the caller carries any more
C12_Witness ==
    /\ max_sequence_seen # None
    /\ \A i \in 1..Len(inner) : inner[i].entry.sequence < max_sequence_seen[1]
    /\ \A i \in 1..Len(held) : held[i].entry.sequence < max_sequence_seen[1]
    /\ inner # << >>

\* C13: no buffer with max_entries = 0 exists to receive a push.
C13_NoZeroCapacityPush ==
    last.op = "push" => max_entries > 0

\* the (repo_id, key) the last store call was made on
ResSlot == << res.repo_id, res.key >>

\* C14: replay(entries) with maximum sequence m leaves the store's next
\* sequence at max(previous next sequence, m + 1) whatever the order of the
\* entries, and leaves it unchanged for an empty list; a successful upsert
\* returns exactly the next sequence and advances it by one.
C14_ReplayAdvancesSequence ==
    [][ /\ (res'.op = "replay") =>
              store_next_sequence' =
                  IF res'.entries = << >> THEN store_next_sequence
                  ELSE Max(store_next_sequence, MaxSequenceOf(res'.entries) + 1)
        /\ (res'.op = "upsert" /\ res'.kind = "Ok") =>
              /\ res'.sequence = store_next_sequence
              /\ store_next_sequence' = store_next_sequence + 1 ]_vars

\* a replay of two entries, the larger sequence first, on a store that has
\* assigned a sequence, moved the counter to the larger sequence plus one
C14_Witness ==
    /\ res.op = "replay"
    /\ Len(res.entries) = 2
    /\ res.entries[1].sequence > res.entries[2].sequence
    /\ upserts >= 1
    /\ store_next_sequence = res.entries[1].sequence + 1

\* C15: under encryption, after any rotations of the key manager, get of a
\* record returns the plaintext of its latest upsert, whichever key id was
\* current when it was written.
C15_RotatedRecordsReadable ==
    (res.op = "get" /\ encryption_configured /\ written[ResSlot] # None) =>
        /\ res.kind = "Ok"
        /\ res.value = Some(written[ResSlot][1].payload)

\* C18: a get through a key manager that maps the record's key id to other
\* key bytes than were current at the upsert returns an Encryption error.
C18_KeyBytesMismatchFails ==
    (/\ res.op = "get"
     /\ encryption_configured
     /\ written[ResSlot] # None
     /\ keys[written[ResSlot][1].key_id] # written[ResSlot][1].key_bytes) =>
        res.kind = "Encryption"

\* C20: get(repo_id, key) returns the payload of the latest successful
\* upsert of exactly that pair, and None for a pair never written.
C20_GetReturnsLatestUpsert ==
    (res.op = "get") =>
        /\ res.kind = "Ok"
        /\ res.value = IF written[ResSlot] = None THEN None
                       ELSE Some(written[ResSlot][1].payload)

\* the stored bytes the last get was made on
ResBytes == stored_bytes(res.repo_id, res.key)[1]

\* bytes that are not a valid envelope: the magic prefix is missing, the
\* header (magic, key-id length, key id, nonce, tag) is cut short, or the key
\* id is not UTF-8
InvalidEnvelope(bytes) ==
    \/ Len(bytes) < 4
    \/ SubSeq(bytes, 1, 4) # ENVELOPE_MAGIC
    \/ Len(bytes) < 6
    \/ LET key_len == bytes[5] * 256 + bytes[6]
       IN \/ Len(bytes) < 6 + key_len + NONCE_LEN + TAG_LEN
          \/ ~from_utf8_ok(SubSeq(bytes, 7, 6 + key_len))

C17_ModifiedByteIsEncryptionError ==
    (res.op = "get" /\ damage.kind = "byte" /\ damage.slot = ResSlot) =>
        res.kind = "Encryption"

\* C19: stored bytes written for one (repo_id, record_key) and placed under
\* another repo_id or record_key make get on the other record return an
\* Encryption error.
C19_EnvelopeBoundToRecord ==
    (res.op = "get" /\ damage.kind = "moved" /\ damage.slot = ResSlot) =>
        res.kind = "Encryption"

\* a get of a record holding the envelope written for another repo_id
\* returned an Encryption error
C19_Witness ==
    /\ res.op = "get"
    /\ damage.kind = "moved"
    /\ damage.slot = ResSlot
    /\ damage.from[1] # res.repo_id
    /\ damage.from[2] = res.key
    /\ ~InvalidEnvelope(ResBytes)
    /\ res.kind = "Encryption"

\* C29: every emit call advances next_sequence to the assigned sequence plus
\* one, whether the queue accepted, the queue rejected and the entry was
\* buffered, or the queue rejected and the buffer push failed.
C29_EmitAlwaysAdvances ==
    [][(last'.op = "emit") => next_sequence' = next_sequence + 1]_vars

\* the entries of a retry buffer that have not expired at time t
RetryFresh(guard, t) == SelectSeq(guard, LAMBDA e : t - e.enqueued_at <= max_age)

\* C30: on every enqueue, enqueue_at or requeue of the STDIO RetryBuffer,
\* expired entries are purged before the capacity eviction, so the entries
\* that were not expired all stay, in order, unless the non-expired entries
\* together with the pushed one number more than max_entries.
C30_RetryKeepsFreshBelowCapacity ==
    [][(last'.op \in {"enqueue", "enqueue_at", "requeue"} /\ last'.ret = "Ok"
            /\ pc = "retry") =>
          LET pushed == inner'[Len(inner')]
          IN Len(RetryFresh(Append(inner, pushed), now)) <= max_entries =>
                RetryFresh(SubSeq(inner', 1, Len(inner') - 1), now)
                    = RetryFresh(inner, now)]_vars

\* C28: plan returns the same plan sequence for every order of the
\* workspace's file list, at most max_chunks_per_batch plans, the files
\* visited in path order and the global index of the plan ids running
\* 0, 1, 2, ...
C28_PlanStableUnderReordering ==
    (pc = "plan" /\ plans # None) =>
        /\ plans = first_plans
        /\ Len(plans[1]) <= planner_config.max_chunks_per_batch
        /\ \A i \in 1..Len(plans[1]) :
              /\ plans[1][i].plan_id[3] = i - 1
              /\ i > 1 => str_cmp(plans[1][i - 1].plan_id[2], plans[1][i].plan_id[2]) <= 0

C27_DecodeInvertsEncode ==
    /\ (tres.op = "decode" /\ verify("stdio", TokenSecret, frame[1].token, wall).kind = "Ok") =>
          /\ tres.kind = "Ok"
          /\ tres.value = << frame[1].json, frame[1].token >>
    /\ tres.op = "encode" =>
          LET json == tres.request.json
              token == tres.request.token
              length == 6 + json_len(json) + token_bytes_len(token) + 16
          IN IF verify("stdio", TokenSecret, token, wall).kind # "Ok"
             THEN tres.kind = "Unauthorized"
             ELSE IF length > max_frame_length THEN tres.kind = "Framing"
             ELSE tres.kind = "Ok"

\* C21: HttpAdapter::dispatch calls the router only for a request whose
\* authorization header is "Bearer " and a token that verifies, whose
\* principal is in the allow-list, whose x-csrf-token value (when
\* require_csrf) is the token's nonce and whose body has a string command; a
\* request that passes the token and principal checks under require_csrf and
\* has no x-csrf-token header, or none with the nonce, gets a Csrf error and
\* the router records no call.
C21_HttpDispatchGuards ==
    [][(pc = "http" /\ tres'.op = "dispatch") =>
          LET request == tres'.request.request
              found == tres'.request.csrf
              bearer == request.authorization # None
                            /\ request.authorization[1].scheme = "Bearer "
              v == verify("http", TokenSecret, request.authorization[1].token, wall)
              passes == /\ bearer
                        /\ v.kind = "Ok"
                        /\ \E k \in 1..Len(allowed_principals) :
                              allowed_principals[k] = v.envelope.principal
          IN /\ calls' # calls =>
                   /\ passes
                   /\ require_csrf => (found # None /\ found[1] = v.envelope.csrf_nonce[1])
                   /\ get_str(request.body, "command") # None
                   /\ SubSeq(calls', 1, Len(calls)) = calls
                   /\ calls'[Len(calls')].principal = v.envelope.principal
                   /\ calls'[Len(calls')].command = get_str(request.body, "command")[1]
             /\ (passes /\ require_csrf /\ v.envelope.csrf_nonce[1] \notin request.csrf) =>
                   /\ tres'.kind = "Csrf"
                   /\ calls' = calls]_vars

\* a request with an issued token and no x-csrf-token header got a Csrf
\* error under require_csrf, and the router had recorded a call before
C21_Witness ==
    /\ pc = "http"
    /\ require_csrf
    /\ tres.op = "dispatch"
    /\ tres.kind = "Csrf"
    /\ tres.message = "missing csrf token"
    /\ \E i \in issued : tres.request.request.authorization = Bearer(i.token)
    /\ Len(calls) = 1

\* C22: UdsAdapter::dispatch calls the router only for a request whose peer
\* uid is in the negotiated set, which only negotiate_peer fills; a request
\* from another uid is rejected as Unauthorized for its uid, whatever its
\* token, and the router records no call.
C22_UdsDispatchNeedsNegotiation ==
    [][(pc = "uds" /\ tres'.op = "dispatch") =>
          LET uid == tres'.request.request.peer.uid
          IN /\ calls' # calls => uid \in negotiated_uids
             /\ uid \notin negotiated_uids =>
                   /\ tres'.kind = "Unauthorized"
                   /\ tres'.message = "uid not negotiated"
                   /\ calls' = calls]_vars

\* a peer whose uid is allowed but was never negotiated sent a token that
\* verifies for an allowed principal and was rejected for its uid
C22_Witness ==
    /\ pc = "uds"
    /\ tres.op = "dispatch"
    /\ tres.message = "uid not negotiated"
    /\ tres.request.request.peer.uid \in allowed_uids
    /\ LET v == verify("uds", TokenSecret, tres.request.request.token, wall)
       IN /\ v.kind = "Ok"
          /\ \E k \in 1..Len(allowed_principals) :
                allowed_principals[k] = v.envelope.principal
    /\ calls = << >>

\* C23: the negotiated set of a UdsAdapter is a subset of config.allowed_uids;
\* negotiate_peer rejects an unlisted uid as Unauthorized and leaves the set,
\* succeeds for a negotiated uid and leaves the set, and no other operation
\* changes the set.
C23_NegotiatedWithinAllowed ==
    [][pc = "uds" =>
          /\ negotiated_uids' \subseteq allowed_uids'
          /\ tres'.op # "negotiate" => negotiated_uids' = negotiated_uids
          /\ tres'.op = "negotiate" =>
                LET uid == tres'.request.uid
                IN /\ uid \notin allowed_uids =>
                         (tres'.kind = "Unauthorized" /\ negotiated_uids' = negotiated_uids)
                   /\ uid \in negotiated_uids =>
                         (tres'.kind = "Ok" /\ negotiated_uids' = negotiated_uids)
                   /\ uid \in allowed_uids =>
                         (tres'.kind = "Ok" /\ negotiated_uids' = negotiated_uids \cup { uid })]_vars

\* the only allowed uid was negotiated, a dispatch from it reached the router,
\* and another process of that uid negotiated again
C23_Witness ==
    /\ pc = "uds"
    /\ allowed_uids = { 1 }
    /\ negotiated_uids = { 1 }
    /\ Len(calls) = 1
    /\ tres.op = "negotiate"
    /\ tres.kind = "Ok"
    /\ tres.request.pid = 11

\* C24: StdioAdapter::dispatch_frame rejects as Unauthorized, without a call
\* of the router, a frame that decodes and carries an issued token that
\* still verifies but whose principal is no longer in allowed_principals.
C24_RevokedPrincipalUnauthorized ==
    [][(pc = "stdio" /\ tres'.op = "dispatch") =>
          LET f == tres'.request.request
              d == decode_with_envelope(max_frame_length, f.frame, wall)
          IN (/\ d.kind = "Ok"
              /\ \E i \in issued : i.token = f.token
              /\ ~\E k \in 1..Len(allowed_principals) :
                     allowed_principals[k] = d.value.envelope.principal)
                => (tres'.kind = "Unauthorized" /\ calls' = calls)]_vars

\* the router's status code as a client gets it from the Router error of the
\* adapter: router_status_code() of the STDIO and UDS errors, the text of the
\* HTTP error
recovered_status(kind, wrapped) ==
    IF kind = "http" THEN status_of_display(wrapped) ELSE status_code(wrapped)

\* C25: when the router returns an error to a dispatch of the HTTP, STDIO or
\* UDS adapter, the adapter returns a Router error from which the status
\* code of the router's error (401, 400, 404, 500) is recovered.
C25_RouterErrorsSurface ==
    (tres.op = "dispatch" /\ tres.request.reply # NoReply /\ ~tres.request.reply.ok) =>
        /\ tres.kind = "Router"
        /\ recovered_status(pc, tres.value) = status_code(tres.request.reply.err)

\* the router answered an HTTP dispatch with Unauthorized and a detail that
\* reads like another error's text
C25_Witness ==
    /\ pc = "http"
    /\ tres.op = "dispatch"
    /\ tres.kind = "Router"
    /\ tres.request.reply.err = RouterError("Unauthorized", DisplayPrefix("NotFound") \o << 100 >>)

\* seq is what is left of a deque after entries were popped from its front
IsSuffixOf(seq, deque) ==
    /\ Len(seq) <= Len(deque)
    /\ seq = SubSeq(deque, Len(deque) - Len(seq) + 1, Len(deque))

\* the entries of a retry buffer that a requeue put there (pushed twice or more)
Requeued(guard) == SelectSeq(guard, LAMBDA e : e.attempts >= 2)

\* C31 (as amended): requeue of a drained entry appends it with its original
\* enqueued_at and payload and its attempts raised by exactly one; every push
\* leaves the entries already buffered ahead of the pushed one, dropping only
\* from the front when the buffer is at max_entries; and drain_ready returns,
\* in buffer order, exactly the entries whose age is at most max_age, so a
\* requeued entry comes ahead of the entries enqueued after it whenever it
\* has neither expired nor been evicted by then.
C31_RequeueKeepsTimeAndOrder ==
    [][(pc = "retry") =>
         /\ (last'.op = "requeue" /\ last'.ret = "Ok") =>
               LET e == held[last'.accepts]
                   pushed == inner'[Len(inner')]
               IN /\ pushed.enqueued_at = e.enqueued_at
                  /\ pushed.payload = e.payload
                  /\ pushed.attempts = e.attempts + 1
         /\ (last'.op \in {"enqueue", "enqueue_at", "requeue"} /\ last'.ret = "Ok") =>
               LET before == SubSeq(inner', 1, Len(inner') - 1)
               IN /\ IsSuffixOf(before, inner)
                  /\ Len(before) = IF Len(inner) < max_entries THEN Len(inner)
                                   ELSE max_entries - 1
         /\ (last'.op = "drain") =>
               /\ held' = RetryFresh(inner, now)
               /\ inner' = << >>]_vars

\* a requeued entry came out of drain_ready ahead of an entry enqueued after
\* the requeue
C31_Witness ==
    /\ pc = "retry"
    /\ last.op = "drain"
    /\ Len(held) = 2
    /\ held[1].attempts = 2
    /\ held[2].attempts = 1
    /\ held[1].enqueued_at < held[2].enqueued_at

\* C31 (as stated): requeue keeps enqueued_at and adds one to attempts, and
\* the next drain_ready returns every requeued entry, ahead of the entries
\* enqueued after the requeue.
C31_RequeuedEntryReturned ==
    [][(pc = "retry") =>
         /\ (last'.op = "requeue" /\ last'.ret = "Ok") =>
               LET e == held[last'.accepts]
                   pushed == inner'[Len(inner')]
               IN /\ pushed.enqueued_at = e.enqueued_at
                  /\ pushed.attempts = e.attempts + 1
         /\ (last'.op \in {"enqueue", "enqueue_at"} /\ last'.ret = "Ok") =>
               Requeued(SubSeq(inner', 1, Len(inner') - 1)) = Requeued(inner)
         /\ (last'.op = "drain") =>
               Requeued(held') = Requeued(inner)]_vars

\* the upsert calls that returned a sequence number
UpsertReturns == SelectSeq(returned, LAMBDA e : e.op = "upsert" /\ e.ok)

\* C32: under any interleaving of concurrent upsert and replay calls on one
\* VectorStore, no two successful upserts return the same sequence number,
\* the counter never decreases, the compare_exchange loop of every replay
\* ends, and an upsert started after a replay with maximum m returned gets a
\* sequence of at least m + 1.
C32_CounterUnderConcurrency ==
    /\ [](pc = "race" =>
            /\ \A i, j \in 1..Len(UpsertReturns) :
                  i # j => UpsertReturns[i].value # UpsertReturns[j].value
            /\ \A i \in 1..Len(UpsertReturns) :
                  UpsertReturns[i].value >= UpsertReturns[i].floor + 1)
    /\ [][store_next_sequence' >= store_next_sequence]_vars
    /\ \A t \in Threads :
          (workers[t] # Idle /\ workers[t].op = "replay") ~> (workers[t] = Idle)

\* a replay lost a compare_exchange to a concurrent upsert and then returned,
\* and an upsert started after it got a sequence above the replayed maximum
C32_Witness ==
    /\ pc = "race"
    /\ \E i, j, k \in 1..Len(returned) :
          /\ i < j /\ j < k
          /\ returned[i].op = "upsert" /\ returned[i].ok
          /\ returned[j].op = "replay" /\ returned[j].value # None
          /\ returned[j].thread # returned[i].thread
          /\ returned[j].value[1] + 1 > returned[i].value + 1
          /\ returned[k].op = "upsert" /\ returned[k].ok
          /\ returned[k].floor = returned[j].value[1]

\* the calls of a history run one after the other on an empty buffer: the
\* buffer they leave and, for the drains whose result is known, whether each
\* returned what the serial run returns
RECURSIVE Serial(_)
Serial(log) ==
    IF log = << >> THEN [inner |-> << >>, max_seen |-> None, agree |-> TRUE]
    ELSE LET e == log[Len(log)]
             b == Serial(SubSeq(log, 1, Len(log) - 1))
         IN IF e.op = "drain"
            THEN LET r == drain_ready(b.inner, e.at, max_age)
                 IN [inner |-> r.inner, max_seen |-> b.max_seen,
                     agree |-> b.agree /\ e.value = r.ready]
            ELSE LET r == push_envelope(b, e.env, e.at, max_entries, max_age)
                 IN [inner |-> r.inner, max_seen |-> r.max_seen,
                     agree |-> b.agree /\ e.ok = r.ok]

\* C33: concurrent push, requeue and drain_ready calls on clones of one
\* OfflineReplayBuffer handle are mutually exclusive, and once they have all
\* returned, the drained results, the buffer's contents and max_sequence()
\* are those of the same calls run one at a time in the order in which they
\* took the lock; no entry is in the buffer twice or with two callers.
C33_SharedBufferSerializable ==
    (pc = "shared") =>
        /\ Cardinality(Holders) <= 1
        /\ (\A t \in Threads : workers[t] = Idle) =>
              LET s == Serial(returned)
              IN /\ s.agree
                 /\ inner = s.inner
                 /\ max_sequence = s.max_seen
        /\ \A i, j \in 1..Len(inner) :
              i # j => inner[i].entry.sequence # inner[j].entry.sequence
        /\ \A i, j \in 1..Len(held) :
              i # j => held[i].entry.sequence # held[j].entry.sequence
        /\ \A i \in 1..Len(inner), j \in 1..Len(held) :
              inner[i].entry.sequence # held[j].entry.sequence

\* a push that stamped its entry, waited for the guard while a drain held
\* it, and was let in afterwards; both calls have returned
C33_Witness ==
    /\ pc = "shared"
    /\ \A t \in Threads : workers[t] = Idle
    /\ Len(returned) >= 2
    /\ returned[1].op = "drain"
    /\ returned[2].op = "push"
    /\ returned[2].thread # returned[1].thread
    /\ returned[2].env.inserted_at < returned[1].at
    /\ inner # << >>

\* the envelopes of a buffer that are not older than max_age at time t
Unexpired(guard, t) ==
    SelectSeq(guard, LAMBDA e : e.inserted_at > t \/ t - e.inserted_at <= max_age)

\* the entries of envelopes as the queue receives them
RECURSIVE SentEntries(_)
SentEntries(guard) ==
    IF guard = << >> THEN << >>
    ELSE << [Head(guard).entry EXCEPT !.status = "emitted"] >> \o SentEntries(Tail(guard))

\* C34: a flush_offline call during which the queue accepts every send
\* returns Ok and leaves the buffer empty, and the queue has then accepted,
\* in buffer order, every entry that was in the buffer and had not expired:
\* an entry left in the buffer by a failed emit or a failed flush is
\* delivered by the first flush the queue fully accepts.
C34_FlushDeliversBuffered ==
    [][(pc = "running" /\ last'.op = "flush"
            /\ last'.accepts = Len(Unexpired(inner, now))) =>
          /\ last'.ret = "Ok"
          /\ inner' = << >>
          /\ queue' = queue \o SentEntries(Unexpired(inner, now))]_vars

\* a flush the queue fully accepted delivered, in order, two entries that
\* failed sends had left in the buffer
C34_Witness ==
    /\ pc = "running"
    /\ last.op = "flush"
    /\ last.ret = "Ok"
    /\ last.accepts = 2
    /\ inner = << >>
    /\ Len(queue) = 2
    /\ queue[1].status = "emitted"
    /\ queue[1].sequence < queue[2].sequence
    /\ pushed_max = queue[2].sequence

\* C35: across any sequence of emit and flush_offline calls, failing or
\* succeeding, on an emitter that alone writes its buffer, the queue accepts
\* each entry at most once, and an entry the queue has accepted is not in
\* the buffer.
C35_AcceptedOnceAndGone ==
    (pc = "running") =>
        /\ \A i, j \in 1..Len(queue) :
              i # j => queue[i].sequence # queue[j].sequence
        /\ \A i \in 1..Len(queue), j \in 1..Len(inner) :
              queue[i].sequence # inner[j].entry.sequence

\* a flush had its first send accepted and its second rejected: the accepted
\* entry is with the queue, the rejected one back in the buffer
C35_Witness ==
    /\ pc = "running"
    /\ last.op = "flush"
    /\ last.ret = "QueueOffline"
    /\ last.accepts = 1
    /\ Len(inner) = 1
    /\ queue # << >>
    /\ queue[Len(queue)].sequence < inner[1].entry.sequence

\* C36 (as amended): FramingCodec.decode rejects every frame shorter than
\* 4 + 2 + 16 = 22 bytes with the Framing error "frame too short", its first
\* test, before any length arithmetic, checksum comparison or token
\* verification.
C36_ShortFrameRejectedFirst ==
    (tres.op \in {"decode", "decode_raw"} /\ tres.request.frame.length < 4 + 2 + 16) =>
        /\ tres.kind = "Framing"
        /\ tres.message = "frame too short"

\* the four byte frame of rejects_bad_checksum was decoded
C36_Witness ==
    /\ pc = "stdio"
    /\ tres.op = "decode_raw"
    /\ tres.request.frame.length = 4
    /\ tres.kind = "Framing"

\* C36 (as stated): decode rejects every frame shorter than 34 bytes with a
\* Framing error, before any length arithmetic, checksum comparison or token
\* verification is attempted.
C36_Below34RejectedFirst ==
    (tres.op \in {"decode", "decode_raw"} /\ tres.request.frame.length < 34) =>
        /\ tres.kind = "Framing"
        /\ tres.message = "frame too short"

\* the rules of a list that no later rule of the list repeats the pattern of
RECURSIVE LastOfEachPattern(_)
LastOfEachPattern(rules) ==
    IF rules = << >> THEN << >>
    ELSE IF \E i \in 2..Len(rules) : rules[i].pattern = Head(rules).pattern
    THEN LastOfEachPattern(Tail(rules))
    ELSE << Head(rules) >> \o LastOfEachPattern(Tail(rules))

\* C37: the ignore stack scan builds holds the global, then the sandbox,
\* then the repository's rules, no pattern twice, and where a later rule of
\* any layer repeats the pattern of an earlier one the pattern stands once,
\* at the place of the later rule.
C37_LaterRuleMovesPattern ==
    (pc = "scan" /\ ignore_stack # None) =>
        ignore_stack[1] = LastOfEachPattern(enumerator_config.global_ignores
                                             \o enumerator_config.sandbox_ignores
                                             \o ignore_rules)

\* C38: the response frame of dispatch_frame carries the status "ok" exactly
\* when the router's status code c satisfies 200 <= c < 300 and "error" for
\* every other code, the router's payload as it is, and the session token
\* of the request frame.
C38_StatusBoundary ==
    (pc = "stdio" /\ tres.op = "dispatch" /\ tres.kind = "Ok") =>
        LET code == tres.request.reply.status_code
            body == tres.value.payload.value
        IN /\ tres.value.payload.text = "json"
           /\ value_get(body, "status") =
                 Some(JStr(IF 200 <= code /\ code < 300 THEN << 111, 107 >>
                           ELSE << 101, 114, 114, 111, 114 >>))
           /\ value_get(body, "payload") = Some(tres.request.reply.payload)
           /\ tres.value.token = tres.request.request.frame.token

\* the router answered 299 and the response frame says "ok"
C38_Witness ==
    /\ pc = "stdio"
    /\ tres.op = "dispatch"
    /\ tres.kind = "Ok"
    /\ tres.request.reply.status_code = 299
    /\ value_get(tres.value.payload.value, "status") = Some(JStr(<< 111, 107 >>))

\* ---------------------------------------------------------------------
\* C39 (token integrity): a token that verify accepts carries the
\* principal, the capabilities, the expiry and, over HTTP, the CSRF nonce
\* of a token the adapter issued; a client without the secret cannot
\* present an accepted token whose claims differ from every issued one.
\* TokenEnvelope::canonical joins the capabilities with "," and the fields
\* with "|" without escaping, so two different capability lists have one
\* canonical string and one signature.
IssuedClaims(envelope) ==
    \E i \in issued :
        /\ i.token.envelope.token_id = envelope.token_id
        /\ i.token.envelope.principal = envelope.principal
        /\ i.token.envelope.capabilities = envelope.capabilities
        /\ i.token.envelope.expires_at = envelope.expires_at
        /\ (pc = "http" =>
              i.token.envelope.csrf_nonce = envelope.csrf_nonce)

C39_AcceptedTokenWasIssued ==
    (tres.op = "verify" /\ tres.kind = "Ok") => IssuedClaims(tres.value)

\* ---------------------------------------------------------------------
\* C40: an upsert that returns an error consumes no sequence number and
\* leaves the bytes stored for its (repo_id, record_key), and what get
\* returns for them, as they were; a successful upsert returns the counter
\* and advances it by one, and nothing but upsert and replay moves the
\* counter, which starts at 1: without a replay the sequence numbers
\* returned are 1, 2, 3, ...
\* atomic_write_bytes writes to path.with_extension("tmp") before the
\* rename; for a record key that ends in ".tmp" that is the record's own
\* file, which a failing write leaves truncated.
C40_FailedUpsertChangesNothing ==
    /\ (pc = "store" /\ upserts = 0 /\ res = NoRes) => store_next_sequence = 1
    /\ [][/\ (res'.op = "upsert" /\ res'.kind # "Ok") =>
                /\ store_next_sequence' = store_next_sequence
                /\ \A sl \in Slots :
                      (/\ sl[1] = res'.repo_id /\ sl[2] = res'.key
                       /\ stored_bytes(sl[1], sl[2]) # None) =>
                          /\ stored_bytes(sl[1], sl[2])' = stored_bytes(sl[1], sl[2])
                          /\ get(sl[1], sl[2])' = get(sl[1], sl[2])
          /\ (res'.op = "upsert" /\ res'.kind = "Ok") =>
                /\ res'.sequence = store_next_sequence
                /\ store_next_sequence' = store_next_sequence + 1
          /\ (res'.op \notin { "upsert", "replay" }) =>
                store_next_sequence' = store_next_sequence]_vars

====
